---- MODULE Spec2Model ----
(***************************************************************************)
(* A model of the eva01 liquidator: the state engine of                    *)
(* src/src/state_engine/engine.rs (banks, oracles, lending accounts and    *)
(* token accounts kept in keyed maps and updated from a stream) and the    *)
(* liquidator processor of src/src/processor.rs (the run loop, the         *)
(* rebalance steps and the scan).                                          *)
(*                                                                         *)
(* The specifications share the variables:                                 *)
(*   SpecProc      the processor loop against a populated engine;          *)
(*   SpecScan      one scan over every state of the lending accounts;      *)
(*   SpecEngine    the engine's update handlers, the tasks they spawn and  *)
(*                 the readers that hold entry locks;                      *)
(*   SpecStart     the start of the engine and of the processor thread;    *)
(*   SpecSetup     the processor thread from its setup into the loop;      *)
(*   SpecWithdraw  one call of withdraw_and_sell_deposit;                  *)
(*   SpecDeposit   the last two rebalance steps, chain against cache;      *)
(*   SpecBatch     batch_get_multiple_accounts of src/src/utils.rs;        *)
(*   SpecValue, SpecBorrow, SpecLiquidate, SpecMaxWithdraw                 *)
(*                 the valuation and sizing functions;                     *)
(*   SpecWalk      one turn of the loop of run(), statement by statement,  *)
(*                 with the guards the thread holds;                       *)
(*   SpecPredicate the rebalance predicate with fallible valuations.       *)
(* FairSpecProc is SpecProc with the scheduling the threads guarantee.     *)
(***************************************************************************)
EXTENDS Integers, Sequences, FiniteSets, TLC

VARIABLES
    \* ---- engine state (StateEngineService, engine.rs:95-108)
    banks,                    \* bank address -> BankWrapper
    oracle_to_bank_map,       \* oracle address -> Vec of bank addresses
    tracked_oracle_accounts,  \* DashSet of oracle addresses
    marginfi_accounts,        \* lending account address -> account data
    token_accounts,           \* mint -> TokenAccountWrapper
    tracked_token_accounts,   \* DashSet of token account addresses
    tasks,                    \* writes spawned with tokio::spawn, not yet run
    held,                     \* entries whose RwLock another party holds
    ret,                      \* the most recent engine call and what it returned
    arrived,                  \* address -> data of the update that arrived last
    updates,                  \* number of updates the stream has delivered
    \* ---- processor state (EvaLiquidator, processor.rs:134-143)
    pc,                       \* position of the processor thread in run()
    chan,                     \* signals waiting in update_rx
    chanOpen,                 \* FALSE once every sender of update_rx is dropped
    liq_deposits,             \* bank -> the liquidator account's asset balance
    target,                   \* account the last scan handed to liquidate_account
    scanResult,               \* what the last calc_health_for_all_accounts returned
    failure,                  \* the step whose error made run() return
    sentSinceRecv,            \* producer signals since the consumer's last recv
    coalesced,                \* producer signals the last recv stood for
    rebalanced,               \* the rebalance steps ran to completion and no
                              \* update has been applied since
    \* ---- the chain and the calls checked on their own
    chain_balance,            \* mint -> balance of the signer's token account on chain
    batch,                    \* a call of batch_get_multiple_accounts in progress
    sizing,                   \* arguments and result of a valuation or sizing call
    trace                     \* the processor's code walked statement by statement

engineVars == <<banks, oracle_to_bank_map, tracked_oracle_accounts,
                tracked_token_accounts, tasks, held, ret, arrived, updates>>
procVars == <<pc, chan, chanOpen, liq_deposits, target, scanResult, failure,
              sentSinceRecv, coalesced, rebalanced>>
auxVars == <<chain_balance, batch, sizing, trace>>
vars == <<engineVars, marginfi_accounts, token_accounts, procVars, auxVars>>

\* The value of a variable a specification does not use.
Unused == "unused"

(***************************************************************************)
(* Bounds of the model.                                                    *)
(***************************************************************************)
MaxProfit == 2      \* expected profits range over 0..MaxProfit
MaxBal == 2         \* token account balances range over 0..MaxBal
MaxDeposit == 1     \* liquidator deposits range over 0..MaxDeposit
MaxSignals == 2     \* producer signals counted between two recv calls
MaxPrice == 2       \* oracle prices range over 1..MaxPrice
MaxUpdates == 2     \* updates the stream hands to the engine in one run
MaxCollateral == 2  \* free collateral ranges over 0..MaxCollateral
MaxAddrs == 5       \* addresses handed to batch_get_multiple_accounts
MaxRetries == 1     \* retries of a chunk before its backoff is exhausted

(***************************************************************************)
(* Addresses.  A bank is named after its mint.                             *)
(***************************************************************************)
BankAddrs == {"USDC", "SOL"}
OracleAddrs == {"o1", "o2"}
MarginfiAddrs == {"liq", "acc1", "acc2"}
NoAccount == "none"

liquidator_account == "liq"
swap_mint_bank_pk == "USDC"
preferred_mints == {"USDC"}
token_account_dust_threshold == 1

BankMint(bank_pk) == bank_pk

(***************************************************************************)
(* A lending account as the scan sees it: has_liabs(), and the result of   *)
(* compute_max_liquidatable_asset_amount(): Err (ok = FALSE) or            *)
(* Ok((amount, profit)), of which the scan reads amount.is_zero()          *)
(* (amt_zero) and the profit.                                              *)
(***************************************************************************)
AccountData ==
    {d \in [liabs : BOOLEAN, ok : BOOLEAN, amt_zero : BOOLEAN, profit : 0..MaxProfit] :
        /\ (~d.liabs) => (d.ok /\ d.amt_zero)
        /\ (~d.ok) => d.amt_zero
        /\ d.amt_zero => d.profit = 0}


(***************************************************************************)
(* Engine entries.  A BankWrapper keeps the bank struct (of which the      *)
(* model keeps config.oracle_keys[0]) and the price adapter derived from   *)
(* the oracle account (of which the model keeps the price).  A             *)
(* TokenAccountWrapper keeps address, balance and mint decimals.           *)
(***************************************************************************)
Prices == 1..MaxPrice

BankWrapper(oracle_key, price) ==
    [oracle_key |-> oracle_key, price_adapter |-> price]

TokenAccountWrapper(address, balance, decimals) ==
    [address |-> address, balance |-> balance, mint_decimals |-> decimals]

\* spl_associated_token_account::get_associated_token_address(signer, mint)
AssociatedTokenAddress(mint) == <<"ata", mint>>

Min(a, b) == IF a <= b THEN a ELSE b

TokenAccountStates ==
    {[m \in BankAddrs |-> TokenAccountWrapper(AssociatedTokenAddress(m), f[m], 0)] :
        f \in [BankAddrs -> 0..MaxBal]}

\* Only deposits outside the preferred mints matter to the loop.
DepositStates ==
    {f \in [BankAddrs -> 0..MaxDeposit] :
        \A b \in BankAddrs : BankMint(b) \in preferred_mints => f[b] = 0}

(***************************************************************************)
(*                         THE PROCESSOR                                   *)
(***************************************************************************)

\* get_token_balance_for_bank: None when the bank or the token account of
\* its mint is missing.
HasTokenBalance(bank_pk) ==
    bank_pk \in DOMAIN banks /\ BankMint(bank_pk) \in DOMAIN token_accounts

get_token_balance_for_bank(bank_pk) == token_accounts[BankMint(bank_pk)].balance

\* get_value(amount, bank, Equity, Assets): amount times the bank's price
\* (the equity weight is 1).
get_value(amount, bank_pk) == amount * banks[bank_pk].price_adapter

\* The value of the token account of a mint, as the rebalance predicate
\* reads it.
TokenValue(mint) == get_value(token_accounts[mint].balance, mint)

has_tokens_in_token_accounts ==
    \E mint \in DOMAIN token_accounts :
        TokenValue(mint) > token_account_dust_threshold

has_non_preferred_deposits ==
    \E bank_pk \in BankAddrs :
        liq_deposits[bank_pk] > 0 /\ BankMint(bank_pk) \notin preferred_mints

has_liabilties == marginfi_accounts[liquidator_account].liabs

needs_to_be_rebalanced ==
    has_tokens_in_token_accounts \/ has_non_preferred_deposits \/ has_liabilties

\* The deposits sell_non_preferred_deposits walks over.
NonPreferredDeposits ==
    {bank_pk \in BankAddrs :
        liq_deposits[bank_pk] > 0 /\ BankMint(bank_pk) \notin preferred_mints}

\* The banks for which handle_token_in_token_account reaches the swap.
TokenSwaps ==
    {bank_pk \in DOMAIN banks \ {swap_mint_bank_pk} :
        /\ HasTokenBalance(bank_pk)
        /\ ~(get_value(get_token_balance_for_bank(bank_pk), bank_pk)
                < token_account_dust_threshold)}

\* deposit_preferred_tokens issues a deposit.
DepositsPreferred ==
    /\ HasTokenBalance(swap_mint_bank_pk)
    /\ get_token_balance_for_bank(swap_mint_bank_pk) # 0

\* A step that issues a swap or a transaction may fail; one that issues
\* nothing returns Ok.
StepOutcomes(issues) == IF issues THEN BOOLEAN ELSE {TRUE}

\* run(): each rebalance step is followed by `?`.
AfterStep(ok, next) == IF ok THEN next ELSE "exited"

RebalanceStep(at, issues, next) ==
    /\ pc = at
    /\ \E ok \in StepOutcomes(issues) :
        /\ pc' = AfterStep(ok, next)
        /\ failure' = IF ok THEN failure ELSE at
        /\ rebalanced' = (rebalanced \/ (ok /\ next = "recv"))
    /\ UNCHANGED <<auxVars, engineVars, marginfi_accounts, token_accounts, chan, chanOpen,
                   liq_deposits, target, scanResult, sentSinceRecv, coalesced>>

\* Top of the loop in run().
run_loop ==
    /\ pc = "loop"
    /\ pc' = IF needs_to_be_rebalanced THEN "sell_non_preferred_deposits" ELSE "recv"
    /\ UNCHANGED <<auxVars, engineVars, marginfi_accounts, token_accounts, chan, chanOpen,
                   liq_deposits, target, scanResult, failure, sentSinceRecv,
                   coalesced, rebalanced>>

sell_non_preferred_deposits ==
    RebalanceStep("sell_non_preferred_deposits", NonPreferredDeposits # {},
                  "handle_tokens_in_token_accounts")

handle_tokens_in_token_accounts ==
    RebalanceStep("handle_tokens_in_token_accounts", TokenSwaps # {},
                  "deposit_preferred_tokens")

deposit_preferred_tokens ==
    RebalanceStep("deposit_preferred_tokens", DepositsPreferred, "recv")

\* A recv that leaves the signal it returned in the channel.
DequeueKeeps(n) == n

\* What a successful recv() leaves in the channel.
Dequeue(n) == n - 1

\* A notification that is received and dropped without a scan.
AfterNotificationWaits == "recv"

\* The body of `while let Ok(_) = self.update_rx.recv()`: the scan.
AfterNotification == "scan"

\* A run() that reaches its last line when the channel is disconnected.
AfterDisconnectReturns == "exited"

\* recv() returns Err: the inner loop ends and the outer loop goes round.
AfterDisconnect == "loop"

\* `while let Ok(_) = self.update_rx.recv()`: a signal starts a scan; a
\* disconnected, empty channel ends the inner loop; otherwise recv blocks.
recv ==
    /\ pc = "recv"
    /\ \/ /\ chan > 0
          /\ chan' = Dequeue(chan)
          /\ pc' = AfterNotification
          /\ sentSinceRecv' = 0
          /\ coalesced' = sentSinceRecv
          /\ target' = NoAccount
          /\ scanResult' = "none"
       \/ /\ chan = 0
          /\ ~chanOpen
          /\ pc' = AfterDisconnect
          /\ UNCHANGED <<auxVars, chan, sentSinceRecv, coalesced, target, scanResult>>
    /\ UNCHANGED <<auxVars, engineVars, marginfi_accounts, token_accounts, chanOpen,
                   liq_deposits, failure, rebalanced>>

\* A filter that keeps accounts whose liquidatable amount is zero.
CandidatesWithZeroAmount(accounts) ==
    {a \in DOMAIN accounts : accounts[a].liabs /\ accounts[a].ok}

\* The filter of calc_health_for_all_accounts: accounts with liabilities
\* whose liquidatable amount was computed and is not zero.
Candidates(accounts) ==
    {a \in DOMAIN accounts :
        accounts[a].liabs /\ accounts[a].ok /\ ~accounts[a].amt_zero}

PermutationsOf(S) ==
    {s \in [1..Cardinality(S) -> S] :
        \A i, j \in 1..Cardinality(S) : i # j => s[i] # s[j]}

\* sort_by on expected profit, ascending; the map's iteration order decides
\* between equal profits.
SortedCandidates(accounts) ==
    {s \in PermutationsOf(Candidates(accounts)) :
        \A i \in 1..(Len(s) - 1) :
            accounts[s[i]].profit <= accounts[s[i + 1]].profit}

\* accounts.first()
Selected(sorted) == IF Len(sorted) = 0 THEN NoAccount ELSE sorted[1]

\* liquidate_account: the sizing may fail, the transaction may fail.
LiquidateOutcomes(account) ==
    IF account = NoAccount THEN {"ok"} ELSE {"ok", "sizing_err", "tx_err"}

\* A run() that returns the scan's error with `?`.
AfterScanPropagates(result) == IF result = "ok" THEN "recv" ELSE "exited"

\* run(): the match on the scan's result logs an error and goes on.
AfterScan(result) == "recv"

calc_health_for_all_accounts ==
    /\ pc = "scan"
    /\ \E sorted \in SortedCandidates(marginfi_accounts) :
        \E result \in LiquidateOutcomes(Selected(sorted)) :
            /\ target' = Selected(sorted)
            /\ scanResult' = result
            /\ pc' = AfterScan(result)
            /\ failure' = IF AfterScan(result) = "exited" THEN "scan" ELSE failure
    /\ UNCHANGED <<auxVars, engineVars, marginfi_accounts, token_accounts, chan, chanOpen,
                   liq_deposits, sentSinceRecv, coalesced, rebalanced>>

(***************************************************************************)
(* The other end of update_rx: the update stream applies an update to the  *)
(* engine and signals a single-slot channel; a signal that finds the slot  *)
(* full is dropped.  Once run() has returned the processor thread is gone  *)
(* and the process ends: nothing is modelled after that.                   *)
(***************************************************************************)
ChannelCapacity == 1

Signal(n) == IF n < ChannelCapacity THEN n + 1 ELSE n

Notify ==
    /\ chan' = Signal(chan)
    /\ sentSinceRecv' = Min(sentSinceRecv + 1, MaxSignals)

StreamUpdate ==
    /\ chanOpen
    /\ pc # "exited"
    /\ \/ \E a \in DOMAIN marginfi_accounts, d \in AccountData :
            /\ marginfi_accounts' = [marginfi_accounts EXCEPT ![a] = d]
            /\ UNCHANGED <<token_accounts, liq_deposits>>
       \/ \E mint \in DOMAIN token_accounts, balance \in 0..MaxBal :
            /\ token_accounts' = [token_accounts EXCEPT ![mint].balance = balance]
            /\ UNCHANGED <<marginfi_accounts, liq_deposits>>
       \/ \E deposits \in DepositStates :
            /\ liq_deposits' = deposits
            /\ UNCHANGED <<marginfi_accounts, token_accounts>>
    /\ Notify
    /\ rebalanced' = FALSE
    /\ UNCHANGED <<auxVars, engineVars, pc, chanOpen, target, scanResult, failure, coalesced>>

\* Every sender of the channel is dropped.
Disconnect ==
    /\ chanOpen
    /\ pc # "exited"
    /\ chanOpen' = FALSE
    /\ UNCHANGED <<auxVars, engineVars, marginfi_accounts, token_accounts, pc, chan,
                   liq_deposits, target, scanResult, failure, sentSinceRecv,
                   coalesced, rebalanced>>

\* The engine as the processor finds it: both banks with their oracles and
\* the token account of each mint.
EngineLoaded ==
    /\ banks = [b \in BankAddrs |->
                  BankWrapper(IF b = "USDC" THEN "o1" ELSE "o2", 1)]
    /\ oracle_to_bank_map = [o \in OracleAddrs |->
                               IF o = "o1" THEN <<"USDC">> ELSE <<"SOL">>]
    /\ tracked_oracle_accounts = OracleAddrs
    /\ tracked_token_accounts = {AssociatedTokenAddress(m) : m \in BankAddrs}
    /\ tasks = {}
    /\ held = {}
    /\ ret = [op |-> "none", result |-> "ok"]
    /\ arrived = << >>
    /\ updates = 0

\* The state in which run() starts: the liquidator account was found in the
\* map (start() fails otherwise) beside one other account.
InitProc ==
    /\ EngineLoaded
    /\ marginfi_accounts \in [{liquidator_account, "acc1"} -> AccountData]
    /\ token_accounts \in TokenAccountStates
    /\ pc = "loop"
    /\ chan = 0
    /\ chanOpen = TRUE
    /\ liq_deposits \in DepositStates
    /\ target = NoAccount
    /\ scanResult = "none"
    /\ failure = "none"
    /\ sentSinceRecv = 0
    /\ coalesced = 0
    /\ rebalanced = FALSE
    /\ chain_balance = Unused
    /\ batch = Unused
    /\ sizing = Unused
    /\ trace = Unused

Processor ==
    \/ run_loop
    \/ sell_non_preferred_deposits
    \/ handle_tokens_in_token_accounts
    \/ deposit_preferred_tokens
    \/ recv
    \/ calc_health_for_all_accounts

NextProc == Processor \/ StreamUpdate \/ Disconnect

SpecProc == InitProc /\ [][NextProc]_vars


(***************************************************************************)
(* One scan over every state of the lending-account map.                   *)
(***************************************************************************)
InitScan ==
    /\ EngineLoaded
    /\ marginfi_accounts \in [MarginfiAddrs -> AccountData]
    /\ token_accounts \in {t \in TokenAccountStates : \A m \in BankAddrs : t[m].balance = 0}
    /\ pc = "scan"
    /\ chan = 0
    /\ chanOpen = TRUE
    /\ liq_deposits = [b \in BankAddrs |-> 0]
    /\ target = NoAccount
    /\ scanResult = "none"
    /\ failure = "none"
    /\ sentSinceRecv = 0
    /\ coalesced = 0
    /\ rebalanced = FALSE
    /\ chain_balance = Unused
    /\ batch = Unused
    /\ sizing = Unused
    /\ trace = Unused

NextScan == calc_health_for_all_accounts

SpecScan == InitScan /\ [][NextScan]_vars


(***************************************************************************)
(*                        THE STATE ENGINE                                 *)
(*                                                                         *)
(* The update handlers are checked from every state of the maps.  start()  *)
(* fills the bank map, the oracle map and the tracked sets; it never calls *)
(* load_marginfi_accounts, and load_token_accounts inserts into a clone of *)
(* the token-account map, so entries of the lending-account and            *)
(* token-account maps are taken as found.                                  *)
(***************************************************************************)
AccountKey(address) == <<"acc", address>>
TokenKey(mint) == <<"tok", mint>>
BankKey(bank_address) == <<"bank", bank_address>>
OracleKey(oracle_address) == <<"oracle", oracle_address>>

\* Lending accounts the update stream reports, and the data it carries.
StreamAddrs == {"acc1"}
\* Mints of the token accounts the update stream reports.
StreamMints == {"USDC"}
StreamAccountData == {d \in AccountData : d.ok /\ d.amt_zero}

\* The prices and the token amounts the update stream and the RPC report:
\* the smallest and the largest.
StreamPrices == {1, MaxPrice}
StreamAmounts == {0, MaxBal}

\* An oracle account: bytes from which try_from_bank_config derives a
\* price adapter, or fails.
OracleAccounts ==
    {a \in [valid : BOOLEAN, price : StreamPrices] : (~a.valid) => a.price = 1}

\* The banks of a Vec, as a set.
Range(seq) == {seq[i] : i \in 1..Len(seq)}

\* A write that does not look at the lock.
TryWriteUnchecked(key) == TRUE
\* RwLock::try_write on an entry: fails while another party holds the lock.
TryWrite(key) == key \notin held

\* The call has the handler, address and bytes of the call before it.
Repeats(call) ==
    /\ ret.op = call.op
    /\ ret.key = call.key
    /\ ret.data = call.data

\* The update stream hands the engine at most MaxUpdates updates.
Delivered(call) ==
    /\ updates < MaxUpdates
    /\ ret.result # "panic"
    /\ updates' = updates + 1
    /\ ret' = call @@ [repeat |-> Repeats(call)]

\* A store that rebuilds the wrapper with a default adapter.
StoreBankResetsAdapter(wrapper, oracle_key) == BankWrapper(oracle_key, 1)
\* `bank_entry.bank = *bank`: the bank struct is replaced, the adapter kept.
StoreBank(wrapper, oracle_key) == [wrapper EXCEPT !.oracle_key = oracle_key]

\* update_bank(bank_address, bank): new_bank is contains_key(bank_address);
\* a known bank gets the new bank struct under try_write; an unknown bank
\* is inserted with an adapter derived from the oracle account fetched over
\* RPC, and its oracle address is tracked.
update_bank(bank_address, oracle_key) ==
    LET new_bank == bank_address \in DOMAIN banks IN
    /\ \/ /\ bank_address \in DOMAIN banks
          /\ banks' = IF TryWrite(BankKey(bank_address))
                      THEN [banks EXCEPT ![bank_address] = StoreBank(@, oracle_key)]
                      ELSE banks
          /\ UNCHANGED tracked_oracle_accounts
       \/ /\ bank_address \notin DOMAIN banks
          /\ \E fetched \in StreamPrices :
                banks' = [b \in DOMAIN banks \cup {bank_address} |->
                            IF b = bank_address
                            THEN BankWrapper(oracle_key, fetched)
                            ELSE banks[b]]
          /\ tracked_oracle_accounts' = tracked_oracle_accounts \cup {oracle_key}
    /\ Delivered([op |-> "update_bank", key |-> BankKey(bank_address),
                  data |-> oracle_key, result |-> "ok", new_bank |-> new_bank,
                  skipped |-> IF bank_address \in DOMAIN banks
                                 /\ ~TryWrite(BankKey(bank_address))
                              THEN {bank_address} ELSE {}])
    /\ UNCHANGED <<auxVars, oracle_to_bank_map, marginfi_accounts, token_accounts,
                   tracked_token_accounts, tasks, held, arrived, procVars>>

\* Every bank of the map whose try_write succeeds, listed or not.
WritableBanksUnlisted(oracle_address) ==
    {b \in DOMAIN banks : TryWrite(BankKey(b))}

\* The banks update_oracle writes: those listed under the oracle whose
\* try_write succeeds.
WritableBanks(oracle_address) ==
    {b \in Range(oracle_to_bank_map[oracle_address]) : TryWrite(BankKey(b))}

\* update_oracle(oracle_address, oracle_account): every bank listed under
\* the oracle whose try_write succeeds gets the adapter derived from the
\* account; a failed derivation returns the error with `?`; an unknown
\* oracle is logged.
update_oracle(oracle_address, oracle_account) ==
    LET known == oracle_address \in DOMAIN oracle_to_bank_map
        listed == IF known THEN Range(oracle_to_bank_map[oracle_address]) ELSE {}
        writable == IF known THEN WritableBanks(oracle_address) ELSE {}
        failed == writable # {} /\ ~oracle_account.valid
    IN
    /\ banks' = IF failed
                THEN banks
                ELSE [b \in DOMAIN banks |->
                        IF b \in writable
                        THEN [banks[b] EXCEPT !.price_adapter = oracle_account.price]
                        ELSE banks[b]]
    /\ Delivered([op |-> "update_oracle", key |-> OracleKey(oracle_address),
                  data |-> oracle_account,
                  result |-> IF failed THEN "err" ELSE "ok",
                  skipped |-> listed \ writable])
    /\ UNCHANGED <<auxVars, oracle_to_bank_map, tracked_oracle_accounts, marginfi_accounts,
                   token_accounts, tracked_token_accounts, tasks, held, arrived,
                   procVars>>

\* The update that arrived last for an entry, and whether it was the first.
Arrival(key, data) ==
    arrived' = [k \in DOMAIN arrived \cup {key} |->
                  IF k = key
                  THEN [data |-> data, second |-> key \in DOMAIN arrived]
                  ELSE arrived[k]]

\* `self.<map>.clone()` of a DashMap copies the table: the Arc of every
\* entry is shared with the engine's map, an entry inserted into the copy
\* is not, and the copy is dropped when the handler returns.
AfterInsertIntoClone(map, clone) == map

\* update_marginfi_account(address, account): on a clone of the map, a
\* known account gets a spawned task that awaits the write lock and stores
\* the data; an unknown account is inserted into the clone, which is
\* dropped when the call returns.
update_marginfi_account(address, account) ==
    /\ tasks' = IF address \in DOMAIN marginfi_accounts
                THEN tasks \cup {[key |-> AccountKey(address), data |-> account]}
                ELSE tasks
    /\ marginfi_accounts' =
          IF address \in DOMAIN marginfi_accounts
          THEN marginfi_accounts
          ELSE AfterInsertIntoClone(marginfi_accounts,
                  [a \in DOMAIN marginfi_accounts \cup {address} |->
                      IF a = address THEN account ELSE marginfi_accounts[a]])
    /\ Arrival(AccountKey(address), account)
    /\ Delivered([op |-> "update_marginfi_account", key |-> AccountKey(address),
                  data |-> account, result |-> "ok",
                  skipped |-> {}])
    /\ UNCHANGED <<auxVars, banks, oracle_to_bank_map, tracked_oracle_accounts,
                   token_accounts, tracked_token_accounts, held, procVars>>

\* Mint::unpack(...).decimals of the mint account fetched on first insert.
MintDecimals(mint) == IF mint = "USDC" THEN 6 ELSE 9

\* rpc_client.get_account(&mint).unwrap() and Mint::unpack(..).unwrap():
\* the mint account is fetched and unpacked, or the handler panics.
MintFetches == {"ok", "panic"}

\* Addresses of the token accounts the update stream reports for a mint:
\* the signer's associated token account, or another holder's account.
StreamTokenAddrs(mint) == {AssociatedTokenAddress(mint), <<"other", mint>>}

\* update_token_account(token_account_address, token_account): mint and
\* amount are read from the bytes; on a clone of the map, a known mint gets
\* a spawned task that awaits the write lock and stores the balance; for an
\* unknown mint the mint account is fetched over RPC and the new entry is
\* inserted into the clone, which is dropped when the call returns.  The
\* address is not looked up in tracked_token_accounts.
update_token_account(token_account_address, mint, amount) ==
    /\ \/ /\ mint \in DOMAIN token_accounts
          /\ tasks' = tasks \cup {[key |-> TokenKey(mint), data |-> amount]}
          /\ UNCHANGED token_accounts
          /\ Delivered([op |-> "update_token_account", key |-> TokenKey(mint),
                        address |-> token_account_address,
                        data |-> amount, result |-> "ok", skipped |-> {}])
       \/ /\ mint \notin DOMAIN token_accounts
          /\ \E fetch \in MintFetches :
                /\ token_accounts' =
                      IF fetch = "panic"
                      THEN token_accounts
                      ELSE AfterInsertIntoClone(token_accounts,
                              [m \in DOMAIN token_accounts \cup {mint} |->
                                  IF m = mint
                                  THEN TokenAccountWrapper(token_account_address,
                                                           amount, MintDecimals(mint))
                                  ELSE token_accounts[m]])
                /\ Delivered([op |-> "update_token_account", key |-> TokenKey(mint),
                              address |-> token_account_address,
                              data |-> amount, result |-> fetch, skipped |-> {}])
          /\ UNCHANGED tasks
    /\ Arrival(TokenKey(mint), amount)
    /\ UNCHANGED <<auxVars, banks, oracle_to_bank_map, tracked_oracle_accounts,
                   marginfi_accounts, tracked_token_accounts, held, procVars>>

\* A spawned task: `write().await`, then the assignment.
RunTask ==
    \E t \in tasks :
        /\ TryWrite(t.key)
        /\ \/ /\ t.key[1] = "acc"
              /\ marginfi_accounts' = [marginfi_accounts EXCEPT ![t.key[2]] = t.data]
              /\ UNCHANGED token_accounts
           \/ /\ t.key[1] = "tok"
              /\ token_accounts' = [token_accounts EXCEPT ![t.key[2]].balance = t.data]
              /\ UNCHANGED marginfi_accounts
        /\ tasks' = tasks \ {t}
        /\ UNCHANGED <<auxVars, banks, oracle_to_bank_map, tracked_oracle_accounts,
                       tracked_token_accounts, held, ret, arrived, updates, procVars>>

\* The entries of the maps.
Entries ==
    {BankKey(b) : b \in DOMAIN banks}
        \cup {AccountKey(a) : a \in DOMAIN marginfi_accounts}
        \cup {TokenKey(m) : m \in DOMAIN token_accounts}

\* Another party (the processor) takes a read guard on an entry, one guard
\* at a time ...
AcquireRead ==
    \E key \in Entries :
        /\ held = {}
        /\ held' = {key}
        /\ UNCHANGED <<auxVars, banks, oracle_to_bank_map, tracked_oracle_accounts,
                       marginfi_accounts, token_accounts, tracked_token_accounts,
                       tasks, ret, arrived, updates, procVars>>

\* ... and drops it.
ReleaseRead ==
    \E key \in held :
        /\ held' = held \ {key}
        /\ UNCHANGED <<auxVars, banks, oracle_to_bank_map, tracked_oracle_accounts,
                       marginfi_accounts, token_accounts, tracked_token_accounts,
                       tasks, ret, arrived, updates, procVars>>

\* The Vec of banks load_oracles_and_banks leaves under an oracle.
RECURSIVE BanksUnder(_, _, _)
BanksUnder(oracle, listing, order) ==
    IF order = << >> THEN << >>
    ELSE LET rest == BanksUnder(oracle, listing, Tail(order))
             b == Head(order)
         IN IF b \in DOMAIN listing /\ listing[b] = oracle
            THEN <<b>> \o rest ELSE rest

BankOrder == <<"USDC", "SOL">>

\* After start(): load_oracles_and_banks has inserted every bank of the
\* listing, pushed it under its oracle and tracked the oracle;
\* load_token_accounts has tracked the associated token account of every
\* bank mint.
InitEngine ==
    /\ \E listed \in SUBSET BankAddrs :
        \E listing \in [listed -> OracleAddrs] :
            /\ banks = [b \in listed |-> BankWrapper(listing[b], 1)]
            /\ oracle_to_bank_map =
                  [o \in {listing[b] : b \in listed} |-> BanksUnder(o, listing, BankOrder)]
            /\ tracked_oracle_accounts = {listing[b] : b \in listed}
            /\ tracked_token_accounts = {AssociatedTokenAddress(BankMint(b)) : b \in listed}
            /\ \E mints \in SUBSET ({BankMint(b) : b \in listed} \cap StreamMints) :
                  token_accounts =
                      [m \in mints |-> TokenAccountWrapper(AssociatedTokenAddress(m), 0, 0)]
    /\ \E present \in SUBSET StreamAddrs :
          marginfi_accounts \in [present -> StreamAccountData]
    /\ tasks = {}
    /\ held = {}
    /\ ret = [op |-> "none", result |-> "ok"]
    /\ arrived = << >>
    /\ updates = 0
    /\ pc = "loop"
    /\ chan = 0
    /\ chanOpen = TRUE
    /\ liq_deposits = [b \in BankAddrs |-> 0]
    /\ target = NoAccount
    /\ scanResult = "none"
    /\ failure = "none"
    /\ sentSinceRecv = 0
    /\ coalesced = 0
    /\ rebalanced = FALSE
    /\ chain_balance = Unused
    /\ batch = Unused
    /\ sizing = Unused
    /\ trace = Unused

NextEngine ==
    \/ \E bank_address \in BankAddrs, oracle_key \in OracleAddrs :
          update_bank(bank_address, oracle_key)
    \/ \E oracle_address \in OracleAddrs, oracle_account \in OracleAccounts :
          update_oracle(oracle_address, oracle_account)
    \/ \E address \in StreamAddrs, account \in StreamAccountData :
          update_marginfi_account(address, account)
    \/ \E mint \in StreamMints, amount \in StreamAmounts :
          \E token_account_address \in StreamTokenAddrs(mint) :
              update_token_account(token_account_address, mint, amount)
    \/ RunTask
    \/ AcquireRead
    \/ ReleaseRead

SpecEngine == InitEngine /\ [][NextEngine]_vars

(***************************************************************************)
(*                     START OF THE STATE ENGINE                           *)
(***************************************************************************)
\* The lending accounts of the configured group that exist on chain, the
\* liquidator's account among them.
GroupAccounts == MarginfiAddrs

\* The listed banks in the order of the listing.
ListedOrder(listed) == SelectSeq(BankOrder, LAMBDA b : b \in listed)

\* Position of the first bank whose oracle account is missing or unusable:
\* `maybe_oracle_account.as_mut().unwrap()` and
\* `try_from_bank_config(..).unwrap()` panic there.
FirstUnusable(order, fetched) ==
    LET bad == {i \in 1..Len(order) : ~fetched[order[i]].valid}
    IN IF bad = {} THEN Len(order) + 1
       ELSE CHOOSE i \in bad : \A j \in bad : i <= j

\* load_oracles_and_banks: the banks of the group are listed and their
\* oracle accounts fetched (an RPC error returns with `?`); bank by bank, the
\* bank is inserted with the adapter derived from its oracle account, pushed
\* under its oracle in oracle_to_bank_map, and the oracle is tracked.
load_oracles_and_banks ==
    /\ pc = "load_oracles_and_banks"
    /\ \/ /\ pc' = "start_failed"
          /\ UNCHANGED <<banks, oracle_to_bank_map, tracked_oracle_accounts>>
       \/ \E listed \in SUBSET BankAddrs :
            \E listing \in [listed -> OracleAddrs], fetched \in [listed -> OracleAccounts] :
              LET order == ListedOrder(listed)
                  stop == FirstUnusable(order, fetched)
                  loaded == {order[i] : i \in 1..(stop - 1)}
                  done == [b \in loaded |-> listing[b]]
              IN /\ banks' = [b \in loaded |-> BankWrapper(listing[b], fetched[b].price)]
                 /\ oracle_to_bank_map' =
                       [o \in {listing[b] : b \in loaded} |-> BanksUnder(o, done, BankOrder)]
                 /\ tracked_oracle_accounts' = {listing[b] : b \in loaded}
                 /\ pc' = IF stop <= Len(order) THEN "panicked" ELSE "load_token_accounts"
    /\ UNCHANGED <<auxVars, marginfi_accounts, token_accounts, tracked_token_accounts, tasks,
                   held, ret, arrived, updates, chan, chanOpen, liq_deposits, target,
                   scanResult, failure, sentSinceRecv, coalesced, rebalanced>>

\* load_token_accounts: the associated token account of every bank mint is
\* fetched (an RPC error returns with `?`); mint by mint, an entry with the
\* fetched balance and decimals 0 is inserted into a clone of the
\* token-account map, and the address is tracked.
load_token_accounts ==
    /\ pc = "load_token_accounts"
    /\ \/ /\ pc' = "start_failed"
          /\ UNCHANGED <<token_accounts, tracked_token_accounts>>
       \/ \E balance \in [{BankMint(b) : b \in DOMAIN banks} -> 0..MaxBal] :
            /\ token_accounts' =
                  AfterInsertIntoClone(token_accounts,
                      [m \in DOMAIN balance |->
                          TokenAccountWrapper(AssociatedTokenAddress(m), balance[m], 0)])
            /\ tracked_token_accounts' =
                  {AssociatedTokenAddress(m) : m \in DOMAIN balance}
            /\ pc' = "started"
    /\ UNCHANGED <<auxVars, banks, oracle_to_bank_map, tracked_oracle_accounts, marginfi_accounts,
                   tasks, held, ret, arrived, updates, chan, chanOpen, liq_deposits,
                   target, scanResult, failure, sentSinceRecv, coalesced, rebalanced>>

\* cfg.swap_mint
swap_mint == "USDC"

\* get_bank_for_mint: a bank of the map whose mint is the one given.
get_bank_for_mint(mint) == {b \in DOMAIN banks : BankMint(b) = mint}

\* The setup of EvaLiquidator::start in the order of the code: the
\* liquidator account, the keypair file, the token accounts, the bank of
\* the swap mint.  "none" when every step succeeds.
SetupError(keypair_ok, created_ok) ==
    IF liquidator_account \notin DOMAIN marginfi_accounts THEN "SetupFailed"
    ELSE IF ~keypair_ok THEN "SetupFailed"
    ELSE IF ~created_ok THEN "SetupFailed"
    ELSE IF get_bank_for_mint(swap_mint) = {} THEN "Failed to get bank for swap mint"
    ELSE "none"

\* A thread that builds the processor and runs it whatever the setup gave.
AfterSetupEnters(error) == "loop"

\* The closure returns Err at the first failing step; run() is called only
\* after the last one.
AfterSetup(error) == IF error = "none" THEN "loop" ELSE "exited"

\* EvaLiquidator::start: the body of the processor thread up to the call of
\* run().
processor_start ==
    /\ pc = "started"
    /\ \E keypair_ok \in BOOLEAN, created_ok \in BOOLEAN :
          LET error == SetupError(keypair_ok, created_ok)
          IN /\ pc' = AfterSetup(error)
             /\ failure' = IF error = "none" THEN failure ELSE error
    /\ UNCHANGED <<auxVars, engineVars, marginfi_accounts, token_accounts, chan, chanOpen,
                   liq_deposits, target, scanResult, sentSinceRecv, coalesced,
                   rebalanced>>

\* StateEngineService::start has built the service: every map and set is
\* empty.
InitStart ==
    /\ banks = << >>
    /\ oracle_to_bank_map = << >>
    /\ tracked_oracle_accounts = {}
    /\ marginfi_accounts = << >>
    /\ token_accounts = << >>
    /\ tracked_token_accounts = {}
    /\ tasks = {}
    /\ held = {}
    /\ ret = [op |-> "none", result |-> "ok"]
    /\ arrived = << >>
    /\ updates = 0
    /\ pc = "load_oracles_and_banks"
    /\ chan = 0
    /\ chanOpen = TRUE
    /\ liq_deposits = [b \in BankAddrs |-> 0]
    /\ target = NoAccount
    /\ scanResult = "none"
    /\ failure = "none"
    /\ sentSinceRecv = 0
    /\ coalesced = 0
    /\ rebalanced = FALSE
    /\ chain_balance = Unused
    /\ batch = Unused
    /\ sizing = Unused
    /\ trace = Unused

NextStart == load_oracles_and_banks \/ load_token_accounts \/ processor_start

SpecStart == InitStart /\ [][NextStart]_vars

(***************************************************************************)
(* The processor thread from its first statement, against an engine whose  *)
(* maps may or may not hold the liquidator account and the bank of the     *)
(* swap mint.                                                              *)
(***************************************************************************)
InitSetup ==
    /\ \E listed \in {BankAddrs, BankAddrs \ {swap_mint_bank_pk}} :
          /\ banks = [b \in listed |->
                        BankWrapper(IF b = "USDC" THEN "o1" ELSE "o2", 1)]
          /\ token_accounts \in
                {[m \in listed |-> t[m]] : t \in TokenAccountStates}
    /\ oracle_to_bank_map = [o \in OracleAddrs |->
                               IF o = "o1" THEN <<"USDC">> ELSE <<"SOL">>]
    /\ tracked_oracle_accounts = OracleAddrs
    /\ tracked_token_accounts = {AssociatedTokenAddress(m) : m \in BankAddrs}
    /\ tasks = {}
    /\ held = {}
    /\ ret = [op |-> "none", result |-> "ok"]
    /\ arrived = << >>
    /\ updates = 0
    /\ \E present \in {{liquidator_account, "acc1"}, {"acc1"}} :
          marginfi_accounts \in [present -> AccountData]
    /\ pc = "started"
    /\ chan = 0
    /\ chanOpen = TRUE
    /\ liq_deposits \in DepositStates
    /\ target = NoAccount
    /\ scanResult = "none"
    /\ failure = "none"
    /\ sentSinceRecv = 0
    /\ coalesced = 0
    /\ rebalanced = FALSE
    /\ chain_balance = Unused
    /\ batch = Unused
    /\ sizing = Unused
    /\ trace = Unused

NextSetup == processor_start \/ NextProc

SpecSetup == InitSetup /\ [][NextSetup]_vars

(***************************************************************************)
(*                    WITHDRAW AND SELL A DEPOSIT                          *)
(*                                                                         *)
(* One call of withdraw_and_sell_deposit, with the effect of its           *)
(* transactions on the liquidator's deposits and token accounts.  The      *)
(* engine's cache follows the chain through the update stream, so a read   *)
(* made right after a transaction sees the value before or after it.       *)
(***************************************************************************)
\* get_amount(value, bank, Low): the value divided by the bank's price.
get_amount(value, bank_pk) == value \div banks[bank_pk].price_adapter

\* get_max_withdraw_for_bank: the amount for min(value, free collateral)
\* and the withdraw_all flag.
get_max_withdraw_for_bank(bank_pk, free_collateral) ==
    LET value == get_value(liq_deposits[bank_pk], bank_pk)
    IN [amount |-> get_amount(Min(value, free_collateral), bank_pk),
        all |-> value <= free_collateral]

\* lending_account_withdraw: the amount leaves the deposit; withdraw_all
\* closes the balance.
Withdrawn(deposit, amount, all) == IF all THEN deposit ELSE Min(amount, deposit)

\* The amount of the destination mint a swap returns: equal value.
SwapOut(amount, src_bank, dst_bank) ==
    (amount * banks[src_bank].price_adapter) \div banks[dst_bank].price_adapter

\* A read of the engine's cache right after a transaction.
CachedReads(before, after) == {before, after}

withdraw_and_sell_deposit(bank_pk) ==
    /\ pc = "withdraw_and_sell_deposit"
    /\ liq_deposits[bank_pk] > 0
    /\ BankMint(bank_pk) \notin preferred_mints
    /\ \/ /\ pc' = "exited"
          /\ failure' = "withdraw_and_sell_deposit"
          /\ UNCHANGED <<liq_deposits, token_accounts>>
       \/ \E free_collateral \in 0..MaxCollateral :
            LET max == get_max_withdraw_for_bank(bank_pk, free_collateral)
                withdrawn == Withdrawn(liq_deposits[bank_pk], max.amount, max.all)
                held_before == get_token_balance_for_bank(bank_pk)
                held_after == held_before + withdrawn
                swap_before == get_token_balance_for_bank(swap_mint_bank_pk)
            IN \E token_amount \in CachedReads(held_before, held_after) :
                 LET swap_after == swap_before + SwapOut(token_amount, bank_pk,
                                                         swap_mint_bank_pk)
                 IN \E token_balance \in CachedReads(swap_before, swap_after) :
                      /\ liq_deposits' =
                            [liq_deposits EXCEPT
                               ![bank_pk] = @ - withdrawn,
                               ![swap_mint_bank_pk] = @ + token_balance]
                      /\ token_accounts' =
                            [token_accounts EXCEPT
                               ![BankMint(bank_pk)].balance = held_after - token_amount,
                               ![BankMint(swap_mint_bank_pk)].balance =
                                    swap_after - token_balance]
                      /\ pc' = "sold"
                      /\ UNCHANGED failure
    /\ UNCHANGED <<auxVars, engineVars, marginfi_accounts, chan, chanOpen, target, scanResult,
                   sentSinceRecv, coalesced, rebalanced>>

\* The liquidator holds a non-preferred deposit; prices and token balances
\* are any.
InitWithdraw ==
    /\ \E price \in [BankAddrs -> Prices] :
          banks = [b \in BankAddrs |->
                     BankWrapper(IF b = "USDC" THEN "o1" ELSE "o2", price[b])]
    /\ oracle_to_bank_map = [o \in OracleAddrs |->
                               IF o = "o1" THEN <<"USDC">> ELSE <<"SOL">>]
    /\ tracked_oracle_accounts = OracleAddrs
    /\ tracked_token_accounts = {AssociatedTokenAddress(m) : m \in BankAddrs}
    /\ tasks = {}
    /\ held = {}
    /\ ret = [op |-> "none", result |-> "ok"]
    /\ arrived = << >>
    /\ updates = 0
    /\ marginfi_accounts \in [{liquidator_account} -> AccountData]
    /\ token_accounts \in TokenAccountStates
    /\ liq_deposits \in DepositStates
    /\ NonPreferredDeposits # {}
    /\ pc = "withdraw_and_sell_deposit"
    /\ chan = 0
    /\ chanOpen = TRUE
    /\ target = NoAccount
    /\ scanResult = "none"
    /\ failure = "none"
    /\ sentSinceRecv = 0
    /\ coalesced = 0
    /\ rebalanced = FALSE
    /\ chain_balance = Unused
    /\ batch = Unused
    /\ sizing = Unused
    /\ trace = Unused

NextWithdraw == \E bank_pk \in BankAddrs : withdraw_and_sell_deposit(bank_pk)

SpecWithdraw == InitWithdraw /\ [][NextWithdraw]_vars

(***************************************************************************)
(*              THE TOKEN ACCOUNTS ON CHAIN AND IN THE CACHE               *)
(*                                                                         *)
(* The last two rebalance steps with the effect of their transactions on   *)
(* the signer's token accounts.  token_accounts is the engine's cache: it  *)
(* changes only when the update stream delivers the account, which happens *)
(* on another thread, at any time after the transaction.                   *)
(***************************************************************************)
\* The stream delivers the token account of a mint: update_token_account
\* and the task it spawns write the chain's balance into the cache.
CacheRefresh(mint) ==
    /\ pc \in {"handle_tokens_in_token_accounts", "deposit_preferred_tokens"}
    /\ token_accounts[mint].balance # chain_balance[mint]
    /\ token_accounts' = [token_accounts EXCEPT ![mint].balance = chain_balance[mint]]
    /\ UNCHANGED <<engineVars, marginfi_accounts, procVars, chain_balance, batch, sizing, trace>>

\* handle_tokens_in_token_accounts: every bank but the swap bank whose
\* cached balance is worth the dust threshold or more has that balance
\* swapped to the swap mint.
HandleTokensOnChain ==
    /\ pc = "handle_tokens_in_token_accounts"
    /\ \/ /\ TokenSwaps # {}
          /\ pc' = "exited"
          /\ failure' = "handle_tokens_in_token_accounts"
          /\ UNCHANGED chain_balance
       \/ /\ \A bank_pk \in TokenSwaps :
                get_token_balance_for_bank(bank_pk) <= chain_balance[BankMint(bank_pk)]
          /\ chain_balance' =
                [mint \in DOMAIN chain_balance |->
                    IF mint = BankMint(swap_mint_bank_pk)
                    THEN chain_balance[mint]
                           + SwapOut(IF "SOL" \in TokenSwaps
                                     THEN get_token_balance_for_bank("SOL") ELSE 0,
                                     "SOL", swap_mint_bank_pk)
                    ELSE IF mint \in TokenSwaps
                    THEN chain_balance[mint] - get_token_balance_for_bank(mint)
                    ELSE chain_balance[mint]]
          /\ pc' = "deposit_preferred_tokens"
          /\ UNCHANGED failure
    /\ UNCHANGED <<engineVars, marginfi_accounts, token_accounts, chan, chanOpen,
                   liq_deposits, target, scanResult, sentSinceRecv, coalesced,
                   rebalanced, batch, sizing, trace>>

\* deposit_preferred_tokens: the cached balance of the swap mint, when there
\* is one and it is not zero, is deposited into the swap bank.
DepositPreferredOnChain ==
    /\ pc = "deposit_preferred_tokens"
    /\ IF ~DepositsPreferred
       THEN /\ pc' = "deposited"
            /\ UNCHANGED <<chain_balance, liq_deposits, failure>>
       ELSE LET balance == get_token_balance_for_bank(swap_mint_bank_pk)
                mint == BankMint(swap_mint_bank_pk)
            IN \/ /\ pc' = "exited"
                  /\ failure' = "deposit_preferred_tokens"
                  /\ UNCHANGED <<chain_balance, liq_deposits>>
               \/ /\ balance <= chain_balance[mint]
                  /\ chain_balance' = [chain_balance EXCEPT ![mint] = @ - balance]
                  /\ liq_deposits' = [liq_deposits EXCEPT ![swap_mint_bank_pk] = @ + balance]
                  /\ pc' = "deposited"
                  /\ UNCHANGED failure
    /\ UNCHANGED <<engineVars, marginfi_accounts, token_accounts, chan, chanOpen,
                   target, scanResult, sentSinceRecv, coalesced, rebalanced,
                   batch, sizing, trace>>

\* The processor is about to run handle_tokens_in_token_accounts and the
\* cache holds the balances of the chain.
InitDeposit ==
    /\ \E price \in [BankAddrs -> Prices] :
          banks = [b \in BankAddrs |->
                     BankWrapper(IF b = "USDC" THEN "o1" ELSE "o2", price[b])]
    /\ oracle_to_bank_map = [o \in OracleAddrs |->
                               IF o = "o1" THEN <<"USDC">> ELSE <<"SOL">>]
    /\ tracked_oracle_accounts = OracleAddrs
    /\ tracked_token_accounts = {AssociatedTokenAddress(m) : m \in BankAddrs}
    /\ tasks = {}
    /\ held = {}
    /\ ret = [op |-> "none", result |-> "ok"]
    /\ arrived = << >>
    /\ updates = 0
    /\ marginfi_accounts \in [{liquidator_account} -> AccountData]
    /\ token_accounts \in TokenAccountStates
    /\ chain_balance = [m \in BankAddrs |-> token_accounts[m].balance]
    /\ liq_deposits = [b \in BankAddrs |-> 0]
    /\ pc = "handle_tokens_in_token_accounts"
    /\ chan = 0
    /\ chanOpen = TRUE
    /\ target = NoAccount
    /\ scanResult = "none"
    /\ failure = "none"
    /\ sentSinceRecv = 0
    /\ coalesced = 0
    /\ rebalanced = FALSE
    /\ batch = Unused
    /\ sizing = Unused
    /\ trace = Unused

NextDeposit ==
    \/ HandleTokensOnChain
    \/ DepositPreferredOnChain
    \/ \E mint \in BankAddrs : CacheRefresh(mint)

SpecDeposit == InitDeposit /\ [][NextDeposit]_vars

(***************************************************************************)
(*                    batch_get_multiple_accounts                          *)
(*                                                                         *)
(* The addresses are cut into batches of max_batch_size *                  *)
(* max_concurrent_calls, taken one after the other; the chunks of a batch  *)
(* (max_batch_size addresses each) are fetched in parallel, each under     *)
(* backoff::retry, and collected into a Result.                            *)
(***************************************************************************)
\* The accounts that exist behind the RPC node.
RpcAddrs == {"a1", "a2"}
None == <<"None">>
Account(address) == <<"Some", address>>
Fetched(address) == IF address = "a1" THEN Account(address) ELSE None

\* getMultipleAccounts: one optional per address, in the order asked.
get_multiple_accounts(chunk) == [i \in 1..Len(chunk) |-> Fetched(chunk[i])]

\* slice::chunks and par_chunks: consecutive pieces of `size` elements, the
\* last one shorter when the length is not a multiple.
Chunks(seq, size) ==
    [k \in 1..((Len(seq) + size - 1) \div size) |->
        SubSeq(seq, (k - 1) * size + 1, Min(k * size, Len(seq)))]

RECURSIVE Flatten(_)
\* .iter().flatten().cloned().collect()
Flatten(vecs) == IF vecs = << >> THEN << >> ELSE Head(vecs) \o Flatten(Tail(vecs))

batched_addresses == Chunks(batch.addresses, batch.max_batch_size * batch.max_concurrent_calls)
total_batches == Len(batched_addresses)

\* The chunks of the batch being fetched.
BatchChunks == Chunks(batched_addresses[batch.batch_index + 1], batch.max_batch_size)

PendingChunk == [state |-> "pending", value |-> << >>, attempts |-> 0]

\* A retry that gives an empty chunk once it stops.
RetryExhaustedEmpty(chunk) == [state |-> "ok", value |-> << >>]

\* backoff::retry returns the last error once the backoff is exhausted.
RetryExhausted(chunk) == [state |-> "err", value |-> << >>]

\* A collection that takes the chunks as they complete.
CollectInCompletionOrder(chunks, order) ==
    Flatten([k \in 1..Len(order) |-> chunks[order[k]].value])

\* collect() of the parallel iterator keeps the order of the chunks.
Collect(chunks, order) == Flatten([k \in 1..Len(chunks) |-> chunks[k].value])

\* `for (batch_index, batch) in batched_addresses.enumerate()`: the chunks of
\* the next batch are handed to the thread pool.
NextBatch ==
    /\ batch.result = "running"
    /\ batch.chunks = << >>
    /\ batch.batch_index < total_batches
    /\ batch' = [batch EXCEPT !.chunks = [k \in 1..Len(BatchChunks) |-> PendingChunk]]
    /\ UNCHANGED <<engineVars, marginfi_accounts, token_accounts, procVars,
                   chain_balance, sizing, trace>>

\* One call of the retried operation for chunk k: the accounts, or a
\* transient error, after which retry calls again until the backoff is
\* exhausted.
FetchChunk(k) ==
    /\ batch.result = "running"
    /\ k \in DOMAIN batch.chunks
    /\ batch.chunks[k].state = "pending"
    /\ LET done(res) ==
               [batch EXCEPT
                  !.chunks[k] = res @@ [attempts |-> batch.chunks[k].attempts],
                  !.order = Append(@, k),
                  !.out_of_order =
                      @ \/ \E j \in 1..(k - 1) : batch.chunks[j].state = "pending"]
       IN \/ batch' = done([state |-> "ok",
                            value |-> get_multiple_accounts(BatchChunks[k])])
          \/ /\ batch.chunks[k].attempts < MaxRetries
             /\ batch' = [batch EXCEPT !.chunks[k].attempts = @ + 1]
          \/ /\ batch.chunks[k].attempts = MaxRetries
             /\ batch' = [done(RetryExhausted(BatchChunks[k])) EXCEPT !.exhausted = TRUE]
    /\ UNCHANGED <<engineVars, marginfi_accounts, token_accounts, procVars,
                   chain_balance, sizing, trace>>

\* `.collect::<Result<Vec<_>>>()?`: an Err among the chunks is returned; the
\* chunks of a batch that all succeeded are flattened and appended.
CollectBatch ==
    /\ batch.result = "running"
    /\ batch.chunks # << >>
    /\ \/ /\ \E k \in DOMAIN batch.chunks : batch.chunks[k].state = "err"
          /\ batch' = [batch EXCEPT !.result = "err"]
       \/ /\ \A k \in DOMAIN batch.chunks : batch.chunks[k].state = "ok"
          /\ batch' = [batch EXCEPT
                         !.accounts = @ \o Collect(batch.chunks, batch.order),
                         !.batch_index = @ + 1,
                         !.chunks = << >>,
                         !.order = << >>]
    /\ UNCHANGED <<engineVars, marginfi_accounts, token_accounts, procVars,
                   chain_balance, sizing, trace>>

\* Ok(accounts)
ReturnAccounts ==
    /\ batch.result = "running"
    /\ batch.chunks = << >>
    /\ batch.batch_index = total_batches
    /\ batch' = [batch EXCEPT !.result = "ok"]
    /\ UNCHANGED <<engineVars, marginfi_accounts, token_accounts, procVars,
                   chain_balance, sizing, trace>>

AddressLists == UNION {[1..n -> RpcAddrs] : n \in 0..MaxAddrs}

InitBatch ==
    /\ \E addresses \in AddressLists, max_batch_size \in {1, 2},
          max_concurrent_calls \in {1, 2} :
          batch = [addresses |-> addresses,
                   max_batch_size |-> max_batch_size,
                   max_concurrent_calls |-> max_concurrent_calls,
                   batch_index |-> 0,
                   chunks |-> << >>,
                   order |-> << >>,
                   accounts |-> << >>,
                   result |-> "running",
                   exhausted |-> FALSE,
                   out_of_order |-> FALSE]
    /\ banks = << >>
    /\ oracle_to_bank_map = << >>
    /\ tracked_oracle_accounts = {}
    /\ marginfi_accounts = << >>
    /\ token_accounts = << >>
    /\ tracked_token_accounts = {}
    /\ tasks = {}
    /\ held = {}
    /\ ret = [op |-> "none", result |-> "ok"]
    /\ arrived = << >>
    /\ updates = 0
    /\ pc = "batch_get_multiple_accounts"
    /\ chan = 0
    /\ chanOpen = TRUE
    /\ liq_deposits = [b \in BankAddrs |-> 0]
    /\ target = NoAccount
    /\ scanResult = "none"
    /\ failure = "none"
    /\ sentSinceRecv = 0
    /\ coalesced = 0
    /\ rebalanced = FALSE
    /\ chain_balance = Unused
    /\ sizing = Unused
    /\ trace = Unused

NextBatchCall ==
    \/ NextBatch
    \/ \E k \in DOMAIN batch.chunks : FetchChunk(k)
    \/ CollectBatch
    \/ ReturnAccounts

SpecBatch == InitBatch /\ [][NextBatchCall]_vars

(***************************************************************************)
(*                      VALUATION AND SIZING                               *)
(*                                                                         *)
(* I80F48 is modelled as a fixed-point number with two decimal digits: a   *)
(* quantity q is kept as the integer q * FixedOne, and products and        *)
(* quotients are truncated to that precision.                              *)
(***************************************************************************)
FixedOne == 100
Fixed(n) == n * FixedOne
Mul(a, b) == (a * b) \div FixedOne
Div(a, b) == (a * FixedOne) \div b

\* EXP_10_I80F48[decimals]
EXP_10_I80F48(decimals) == Fixed(10 ^ decimals)

RequirementTypes == {"Initial", "Maintenance", "Equity"}

\* A bank as the valuation reads it: risk tier, weights, the discount of
\* the initial asset weight (FixedOne when there is none), the price with
\* its low and high bias, and the mint decimals.
SizingBanks ==
    {b \in [risk_tier : {"Collateral", "Isolated"},
            asset_weight_init : {0, 50, 100},
            asset_weight_maint : {0, 50, 100},
            liability_weight_init : {100, 150},
            discount : {50, 100},
            price_low : {Fixed(p) : p \in Prices},
            spread : {0, Fixed(1)},
            mint_decimals : {0, 1}] :
        b.asset_weight_init <= b.asset_weight_maint}

price_high(bank) == bank.price_low + bank.spread

\* get_price_of_type(requirement_type.get_oracle_price_type(), bias): the
\* price under the low bias, or the middle of the band without bias.
price_of(bank, biased_low) ==
    IF biased_low THEN bank.price_low ELSE bank.price_low + (bank.spread \div 2)

\* bank.config.get_weight(requirement_type, BalanceSide::Assets)
get_weight(bank, requirement_type) ==
    IF requirement_type = "Initial" THEN bank.asset_weight_init
    ELSE IF requirement_type = "Maintenance" THEN bank.asset_weight_maint
    ELSE FixedOne

\* marginfi calc_value: amount * weight * price / 10^decimals
calc_value(amount, price, mint_decimals, weight) ==
    Div(Mul(Mul(amount, weight), price), EXP_10_I80F48(mint_decimals))

\* The asset weight after the discount of the initial requirement.
discounted_weight(bank, requirement_type) ==
    IF requirement_type = "Initial"
    THEN Mul(get_weight(bank, requirement_type), bank.discount)
    ELSE get_weight(bank, requirement_type)

\* BankAccountWithPriceFeedEva::calc_weighted_assets, the per-balance path
\* of the account health.
balance_calc_weighted_assets(bank, amount, requirement_type) ==
    IF bank.risk_tier = "Collateral"
    THEN calc_value(amount, price_of(bank, TRUE), bank.mint_decimals,
                    discounted_weight(bank, requirement_type))
    ELSE 0

\* utils::calc_weighted_assets, the function get_value calls for the side
\* of the assets.
calc_weighted_assets(bank, amount, requirement_type) ==
    calc_value(amount, price_of(bank, requirement_type # "Equity"),
               bank.mint_decimals, discounted_weight(bank, requirement_type))

\* The health path values a balance.
HealthValuation ==
    /\ sizing.fn = "none"
    /\ sizing' = [sizing EXCEPT
                    !.fn = "BankAccountWithPriceFeedEva::calc_weighted_assets",
                    !.result = balance_calc_weighted_assets(sizing.bank, sizing.amount,
                                                            sizing.requirement_type)]
    /\ UNCHANGED <<engineVars, marginfi_accounts, token_accounts, procVars,
                   chain_balance, batch, trace>>

\* EvaLiquidator::get_value(amount, bank, requirement_type, Assets)
GetValue ==
    /\ sizing.fn = "none"
    /\ sizing' = [sizing EXCEPT
                    !.fn = "get_value",
                    !.result = calc_weighted_assets(sizing.bank, sizing.amount,
                                                    sizing.requirement_type)]
    /\ UNCHANGED <<engineVars, marginfi_accounts, token_accounts, procVars,
                   chain_balance, batch, trace>>

\* The variables the valuation and sizing calls do not read.
InitIdle ==
    /\ banks = << >>
    /\ oracle_to_bank_map = << >>
    /\ tracked_oracle_accounts = {}
    /\ marginfi_accounts = << >>
    /\ token_accounts = << >>
    /\ tracked_token_accounts = {}
    /\ tasks = {}
    /\ held = {}
    /\ ret = [op |-> "none", result |-> "ok"]
    /\ arrived = << >>
    /\ updates = 0
    /\ pc = "sizing"
    /\ chan = 0
    /\ chanOpen = TRUE
    /\ liq_deposits = [b \in BankAddrs |-> 0]
    /\ target = NoAccount
    /\ scanResult = "none"
    /\ failure = "none"
    /\ sentSinceRecv = 0
    /\ coalesced = 0
    /\ rebalanced = FALSE
    /\ chain_balance = Unused
    /\ batch = Unused
    /\ trace = Unused

InitValue ==
    /\ InitIdle
    /\ \E bank \in SizingBanks, amount \in 0..MaxBal,
          requirement_type \in RequirementTypes :
          /\ bank.liability_weight_init = 100
          /\ sizing = [fn |-> "none", bank |-> bank,
                       amount |-> Fixed(amount * 10 ^ bank.mint_decimals),
                       requirement_type |-> requirement_type, result |-> 0]

NextValue == HealthValuation \/ GetValue

SpecValue == InitValue /\ [][NextValue]_vars

\* BankWrapper::calc_value under the initial requirement: assets at the low
\* price with the initial asset weight, liabilities at the high price with
\* the initial liability weight.
bank_calc_value(bank, amount, side) ==
    IF side = "Assets"
    THEN calc_value(amount, bank.price_low, bank.mint_decimals, bank.asset_weight_init)
    ELSE calc_value(amount, price_high(bank), bank.mint_decimals,
                    bank.liability_weight_init)

\* BankWrapper::calc_amount for assets under the initial requirement:
\* value / price * 10^decimals at the low price.
bank_calc_amount(bank, value) ==
    Mul(Div(value, bank.price_low), EXP_10_I80F48(bank.mint_decimals))

\* get_max_borrow_for_bank, given the free collateral and the native asset
\* amount the liquidator holds on the bank.
get_max_borrow_for_bank(bank, free_collateral, asset_amount) ==
    LET untied_collateral_for_bank ==
            Min(free_collateral, bank_calc_value(bank, asset_amount, "Assets"))
        asset_weight == bank.asset_weight_init
        liab_weight == bank.liability_weight_init
        lower_price == bank.price_low
        higher_price == price_high(bank)
    IN IF asset_weight = 0
       THEN LET max_additional_borrow_ui ==
                    Div(free_collateral - untied_collateral_for_bank,
                        Mul(higher_price, liab_weight))
                max_additional ==
                    Mul(max_additional_borrow_ui, EXP_10_I80F48(bank.mint_decimals))
            IN max_additional + asset_amount
       ELSE LET ui_amount ==
                    Div(untied_collateral_for_bank, Mul(lower_price, asset_weight))
                      + Div(free_collateral - untied_collateral_for_bank,
                            Mul(higher_price, liab_weight))
            IN Mul(ui_amount, EXP_10_I80F48(bank.mint_decimals))

\* The banks the sizing is checked on: collateral banks without discount.
BorrowBanks ==
    {b \in SizingBanks :
        /\ b.risk_tier = "Collateral"
        /\ b.discount = FixedOne
        /\ b.asset_weight_maint = FixedOne}

MaxBorrow ==
    /\ sizing.fn = "none"
    /\ sizing' = [sizing EXCEPT
                    !.fn = "get_max_borrow_for_bank",
                    !.result = get_max_borrow_for_bank(sizing.bank,
                                                       sizing.free_collateral,
                                                       sizing.asset_amount)]
    /\ UNCHANGED <<engineVars, marginfi_accounts, token_accounts, procVars,
                   chain_balance, batch, trace>>

InitBorrow ==
    /\ InitIdle
    /\ \E bank \in BorrowBanks, free_collateral \in 0..MaxCollateral,
          asset_amount \in 0..MaxBal :
          sizing = [fn |-> "none", bank |-> bank,
                    free_collateral |-> Fixed(free_collateral),
                    asset_amount |-> Fixed(asset_amount), result |-> 0]

NextBorrow == MaxBorrow

SpecBorrow == InitBorrow /\ [][NextBorrow]_vars

\* An amount passed on without the margin.
SlippageUnadjusted(amount) == amount

\* asset_amount_to_liquidate * I80F48!(0.98)
SlippageAdjusted(amount) == Mul(amount, 98)

\* The liquidator's capacity as an amount of the asset bank: max borrow on
\* the liability bank, its value as a liability, that value as an amount
\* of the asset.
liquidation_asset_amount_capacity(liab_bank, asset_bank, free_collateral, asset_amount) ==
    bank_calc_amount(asset_bank,
        bank_calc_value(liab_bank,
            get_max_borrow_for_bank(liab_bank, free_collateral, asset_amount),
            "Liabilities"))

\* liquidate_account: the amount handed to liquidate.
LiquidateSizing ==
    /\ sizing.fn = "none"
    /\ LET asset_amount_to_liquidate ==
               Min(sizing.max_asset_liquidation_amount,
                   liquidation_asset_amount_capacity(sizing.bank, sizing.asset_bank,
                                                     sizing.free_collateral,
                                                     sizing.asset_amount))
       IN sizing' = [sizing EXCEPT
                       !.fn = "liquidate_account",
                       !.result = SlippageAdjusted(asset_amount_to_liquidate)]
    /\ UNCHANGED <<engineVars, marginfi_accounts, token_accounts, procVars,
                   chain_balance, batch, trace>>

\* The asset banks of a liquidation: a collateral bank with a price.
AssetBanks ==
    {b \in BorrowBanks :
        /\ b.asset_weight_init = FixedOne
        /\ b.liability_weight_init = FixedOne
        /\ b.spread = 0
        /\ b.mint_decimals = 0}

InitLiquidate ==
    /\ InitIdle
    /\ \E liab_bank \in BorrowBanks, asset_bank \in AssetBanks,
          free_collateral \in 0..MaxCollateral, asset_amount \in 0..MaxBal,
          max_asset_liquidation_amount \in 0..MaxBal :
          sizing = [fn |-> "none", bank |-> liab_bank, asset_bank |-> asset_bank,
                    free_collateral |-> Fixed(free_collateral),
                    asset_amount |-> Fixed(asset_amount),
                    max_asset_liquidation_amount |-> Fixed(max_asset_liquidation_amount),
                    result |-> 0]

NextLiquidate == LiquidateSizing

SpecLiquidate == InitLiquidate /\ [][NextLiquidate]_vars

(***************************************************************************)
(*                  FREE COLLATERAL AND MAX WITHDRAW                       *)
(***************************************************************************)
\* The difference of the two sides of the health, whatever its sign.
free_collateral_signed(assets, liabs) == assets - liabs

\* get_free_collateral, given calc_health(Initial) of the liquidator.
get_free_collateral(assets, liabs) ==
    IF assets > liabs THEN assets - liabs ELSE 0

\* The value of the balance, whatever the free collateral.
max_withdraw_uncapped(value, free_collateral) == value

\* value.min(free_collateral)
max_withdraw(value, free_collateral) == Min(value, free_collateral)

\* get_amount(value, bank, Some(PriceBias::Low)): value / price * 10^decimals
\* at the real-time price with the low bias.
get_amount_real_time(value, real_time_low, mint_decimals) ==
    Mul(Div(value, real_time_low), EXP_10_I80F48(mint_decimals))

\* get_max_withdraw_for_bank, given the liquidator's balance on the bank
\* (its amount and side, "None" when there is no balance) and its health.
max_withdraw_for_bank(bank, real_time_low, balance, side, assets, liabs) ==
    LET free_collateral == get_free_collateral(assets, liabs)
    IN IF side = "Assets"
       THEN LET value == calc_weighted_assets(bank, balance, "Initial")
            IN [amount |-> get_amount_real_time(max_withdraw(value, free_collateral),
                                                real_time_low, bank.mint_decimals),
                all |-> value <= free_collateral]
       ELSE [amount |-> 0, all |-> FALSE]

FreeCollateral ==
    /\ sizing.fn = "none"
    /\ sizing' = [sizing EXCEPT
                    !.fn = "get_free_collateral",
                    !.result = get_free_collateral(sizing.assets, sizing.liabs)]
    /\ UNCHANGED <<engineVars, marginfi_accounts, token_accounts, procVars,
                   chain_balance, batch, trace>>

MaxWithdraw ==
    /\ sizing.fn = "none"
    /\ LET r == max_withdraw_for_bank(sizing.bank, sizing.real_time_low,
                                      sizing.amount, sizing.side,
                                      sizing.assets, sizing.liabs)
       IN sizing' = [sizing EXCEPT
                       !.fn = "get_max_withdraw_for_bank",
                       !.result = r.amount,
                       !.withdraw_all = r.all]
    /\ UNCHANGED <<engineVars, marginfi_accounts, token_accounts, procVars,
                   chain_balance, batch, trace>>

BalanceSides == {"None", "Assets", "Liabilities"}

InitMaxWithdraw ==
    /\ InitIdle
    /\ \E bank \in BorrowBanks, real_time_low \in Prices, amount \in 0..MaxBal,
          side \in BalanceSides, assets \in 0..MaxCollateral,
          liabs \in 0..MaxCollateral :
          /\ bank.liability_weight_init = 100
          /\ (side = "None") = (amount = 0)
          /\ sizing = [fn |-> "none", bank |-> bank,
                       real_time_low |-> Fixed(real_time_low),
                       amount |-> Fixed(amount * 10 ^ bank.mint_decimals),
                       side |-> side,
                       assets |-> Fixed(assets), liabs |-> Fixed(liabs),
                       result |-> 0, withdraw_all |-> FALSE]

NextMaxWithdraw == FreeCollateral \/ MaxWithdraw

SpecMaxWithdraw == InitMaxWithdraw /\ [][NextMaxWithdraw]_vars

(***************************************************************************)
(*               THE PROCESSOR, STATEMENT BY STATEMENT                     *)
(*                                                                         *)
(* One turn of the loop of run() as the sequence of what the thread does   *)
(* to the rest of the system: it takes a guard (a read guard of an entry's *)
(* RwLock, or the map's reference to the entry), drops a guard, or makes a *)
(* call that suspends it (the recv on update_rx, a request to the swap     *)
(* API, an RPC call, the submission of a transaction).  The sequence of a  *)
(* function is put together from the sequences of the functions it calls,  *)
(* in the order of its statements; a guard bound by `let` lasts to the end *)
(* of its block, a temporary to the end of its statement.  The cache is    *)
(* read as it stands when the turn starts.                                 *)
(***************************************************************************)
NoKey == <<"none", "none">>

Event(k, name, on, to, amount) ==
    [k |-> k, name |-> name, on |-> on, to |-> to, amount |-> amount, step |-> "run"]

Take(name, key) == <<Event("take", name, key, NoKey, 0)>>
Drop(name, key) == <<Event("drop", name, key, NoKey, 0)>>

\* A guard that lives as long as the statements of body.
Scoped(name, key, body) == Take(name, key) \o body \o Drop(name, key)

\* A call that suspends the thread until the other side answers.
Io(name, src_bank, dst_bank, amount) ==
    <<Event("io", name, BankKey(src_bank), BankKey(dst_bank), amount)>>

\* The events of walk, as part of a step of run().
In(step, walk) == [i \in DOMAIN walk |-> [walk[i] EXCEPT !.step = step]]

\* An order in which a map or a Vec is iterated.
OrderOf(S) == CHOOSE s \in PermutationsOf(S) : TRUE

\* banks.get(bank_pk).and_then(|bank| bank.read().ok().map(|bank| bank.bank.mint))
get_mint_walk(bank_pk) ==
    Scoped("bank_ref", BankKey(bank_pk), Scoped("bank", BankKey(bank_pk), << >>))

get_token_balance_for_bank_walk(bank_pk) ==
    IF bank_pk \notin DOMAIN banks THEN << >>
    ELSE get_mint_walk(bank_pk)
           \o (IF BankMint(bank_pk) \in DOMAIN token_accounts
               THEN Scoped("account_ref", TokenKey(BankMint(bank_pk)),
                           Scoped("account", TokenKey(BankMint(bank_pk)), << >>))
               ELSE << >>)

\* get_liquidator_account()?: a read guard of the liquidator's account.
get_liquidator_account_walk(body) ==
    Scoped("liquidator_account", AccountKey(liquidator_account), body)

get_free_collateral_walk ==
    Scoped("account", AccountKey(liquidator_account), << >>)

\* utils::calc_weighted_assets, called by get_value.
calc_weighted_assets_walk(bank_pk) ==
    Scoped("bank_wrapper_ref", BankKey(bank_pk), << >>)

get_amount_walk(bank_pk) == Scoped("bank", BankKey(bank_pk), << >>)

get_max_withdraw_for_bank_walk(bank_pk) ==
    get_free_collateral_walk
      \o get_liquidator_account_walk(<< >>)
      \o (IF liq_deposits[bank_pk] > 0
          THEN calc_weighted_assets_walk(bank_pk) \o get_amount_walk(bank_pk)
          ELSE << >>)

get_max_borrow_for_bank_walk(bank_pk) ==
    get_free_collateral_walk
      \o Scoped("bank", BankKey(bank_pk), get_liquidator_account_walk(<< >>))

\* swap: the two mints are read in blocks of their own, then the quote,
\* the swap transaction, the blockhash and the submission.
swap_walk(amount, src_bank, dst_bank) ==
    Scoped("bank_ref", BankKey(src_bank), Scoped("bank_w", BankKey(src_bank), << >>))
      \o Scoped("bank_ref", BankKey(dst_bank), Scoped("bank_w", BankKey(dst_bank), << >>))
      \o Io("quote", src_bank, dst_bank, amount)
      \o Io("swap", src_bank, dst_bank, amount)
      \o Io("get_latest_blockhash", src_bank, dst_bank, amount)
      \o Io("aggressive_send_tx", src_bank, dst_bank, amount)

withdraw_and_sell_deposit_walk(bank_pk, free_collateral) ==
    get_liquidator_account_walk(<< >>)
      \o (IF ~(liq_deposits[bank_pk] > 0) THEN << >>
          ELSE LET token_amount ==
                       IF HasTokenBalance(bank_pk)
                       THEN get_token_balance_for_bank(bank_pk) ELSE 0
                   token_balance ==
                       IF HasTokenBalance(swap_mint_bank_pk)
                       THEN get_token_balance_for_bank(swap_mint_bank_pk) ELSE 0
               IN get_max_withdraw_for_bank_walk(bank_pk)
                    \o Io("withdraw", bank_pk, bank_pk,
                          get_max_withdraw_for_bank(bank_pk, free_collateral).amount)
                    \o get_token_balance_for_bank_walk(bank_pk)
                    \o swap_walk(token_amount, bank_pk, swap_mint_bank_pk)
                    \o get_token_balance_for_bank_walk(swap_mint_bank_pk)
                    \o (IF token_balance # 0
                        THEN Io("deposit", swap_mint_bank_pk, swap_mint_bank_pk,
                                token_balance)
                        ELSE << >>))

sell_non_preferred_deposits_walk(free_collateral) ==
    LET non_preferred_deposits == OrderOf(NonPreferredDeposits)
    IN Scoped("account", AccountKey(liquidator_account), << >>)
         \o Flatten([i \in DOMAIN non_preferred_deposits |->
                       withdraw_and_sell_deposit_walk(non_preferred_deposits[i],
                                                      free_collateral)])

\* The keys of the bank map, the swap bank among them.
every_bank_address == DOMAIN banks

\* handle_tokens_in_token_accounts: the keys of the bank map but the swap
\* bank.
bank_addresses == DOMAIN banks \ {swap_mint_bank_pk}

handle_token_in_token_account_walk(bank_pk) ==
    get_token_balance_for_bank_walk(bank_pk)
      \o (IF ~HasTokenBalance(bank_pk) THEN << >>
          ELSE LET amount == get_token_balance_for_bank(bank_pk)
               IN calc_weighted_assets_walk(bank_pk)
                    \o (IF get_value(amount, bank_pk) < token_account_dust_threshold
                        THEN << >>
                        ELSE swap_walk(amount, bank_pk, swap_mint_bank_pk)))

handle_tokens_in_token_accounts_walk(order) ==
    Flatten([i \in DOMAIN order |-> handle_token_in_token_account_walk(order[i])])

deposit_preferred_tokens_walk ==
    get_token_balance_for_bank_walk(swap_mint_bank_pk)
      \o (IF DepositsPreferred
          THEN Io("deposit", swap_mint_bank_pk, swap_mint_bank_pk,
                  get_token_balance_for_bank(swap_mint_bank_pk))
          ELSE << >>)

\* needs_to_be_rebalanced: the three tests, each over every entry it may
\* visit (any() and || may stop earlier).
needs_to_be_rebalanced_walk ==
    LET mints == OrderOf(DOMAIN token_accounts)
        active == OrderOf({b \in BankAddrs : liq_deposits[b] > 0})
    IN Flatten([i \in DOMAIN mints |-> Scoped("account", TokenKey(mints[i]), << >>)])
         \o Scoped("account", AccountKey(liquidator_account),
                   Flatten([i \in DOMAIN active |-> get_mint_walk(active[i])]))
         \o Scoped("account", AccountKey(liquidator_account), << >>)

\* Nothing is dropped before the call of liquidate.
keep_bank_guards(asset_bank_pk, liab_bank_pk) == << >>

\* liquidate_account: the four drops before the call of liquidate.
drop_bank_guards(asset_bank_pk, liab_bank_pk) ==
    Drop("liab_bank", BankKey(liab_bank_pk))
      \o Drop("liab_bank_ref", BankKey(liab_bank_pk))
      \o Drop("asset_bank", BankKey(asset_bank_pk))
      \o Drop("asset_bank_ref", BankKey(asset_bank_pk))

\* liquidate_account; the amount it hands over is sized in SpecLiquidate.
liquidate_account_walk(account, asset_bank_pk, liab_bank_pk) ==
    Scoped("account", AccountKey(account), << >>)
      \o get_max_borrow_for_bank_walk(liab_bank_pk)
      \o Take("liab_bank_ref", BankKey(liab_bank_pk))
      \o Take("liab_bank", BankKey(liab_bank_pk))
      \o Take("asset_bank_ref", BankKey(asset_bank_pk))
      \o Take("asset_bank", BankKey(asset_bank_pk))
      \o drop_bank_guards(asset_bank_pk, liab_bank_pk)
      \o Io("liquidate", asset_bank_pk, liab_bank_pk, 0)

\* calc_health_for_all_accounts: the filter reads every account, twice when
\* it has liabilities; the log reads the accounts kept; the first of them
\* is liquidated.
calc_health_for_all_accounts_walk(sorted, asset_bank_pk, liab_bank_pk) ==
    LET accounts == OrderOf(DOMAIN marginfi_accounts)
    IN Flatten([i \in DOMAIN accounts |->
                  Scoped("account", AccountKey(accounts[i]), << >>)
                    \o (IF marginfi_accounts[accounts[i]].liabs
                        THEN Scoped("account", AccountKey(accounts[i]), << >>)
                        ELSE << >>)])
         \o Flatten([i \in DOMAIN sorted |->
                       Scoped("account", AccountKey(sorted[i]), << >>)])
         \o (IF Selected(sorted) = NoAccount THEN << >>
             ELSE liquidate_account_walk(Selected(sorted), asset_bank_pk, liab_bank_pk))

\* run(): the predicate, the three steps when it holds, the recv and the
\* scan it starts.
run_walk(free_collateral, order, sorted, asset_bank_pk, liab_bank_pk) ==
    In("loop", needs_to_be_rebalanced_walk)
      \o (IF needs_to_be_rebalanced
          THEN In("sell_non_preferred_deposits",
                  sell_non_preferred_deposits_walk(free_collateral))
                 \o In("handle_tokens_in_token_accounts",
                       handle_tokens_in_token_accounts_walk(order))
                 \o In("deposit_preferred_tokens", deposit_preferred_tokens_walk)
          ELSE << >>)
      \o In("recv", <<Event("io", "recv", NoKey, NoKey, 0)>>)
      \o In("scan", calc_health_for_all_accounts_walk(sorted, asset_bank_pk,
                                                      liab_bank_pk))

\* Where the thread is: the step of its next statement, or the recv it is
\* back at.
Position(todo) == IF todo = << >> THEN "recv" ELSE todo[1].step

\* A run() that goes on after the error of a step.
AfterFailedStepGoesOn(rest) == rest

\* run(): `?` after each rebalance step returns the error.
AfterFailedStep(rest) == << >>

WalkFrame ==
    UNCHANGED <<engineVars, marginfi_accounts, token_accounts, chan, chanOpen,
                liq_deposits, target, scanResult, sentSinceRecv, coalesced,
                rebalanced, chain_balance, batch, sizing>>

TakeGuard ==
    /\ trace.todo # << >>
    /\ trace.todo[1].k = "take"
    /\ trace' = [trace EXCEPT
                   !.todo = Tail(@),
                   !.guards = @ \cup {<<trace.todo[1].name, trace.todo[1].on>>}]
    /\ pc' = Position(Tail(trace.todo))
    /\ UNCHANGED failure
    /\ WalkFrame

DropGuard ==
    /\ trace.todo # << >>
    /\ trace.todo[1].k = "drop"
    /\ trace' = [trace EXCEPT
                   !.todo = Tail(@),
                   !.guards = @ \ {<<trace.todo[1].name, trace.todo[1].on>>}]
    /\ pc' = Position(Tail(trace.todo))
    /\ UNCHANGED failure
    /\ WalkFrame

\* The call is made and answered.
Suspend ==
    /\ trace.todo # << >>
    /\ trace.todo[1].k = "io"
    /\ trace' = [trace EXCEPT
                   !.todo = Tail(@),
                   !.issued = Append(@, trace.todo[1])]
    /\ pc' = Position(Tail(trace.todo))
    /\ UNCHANGED failure
    /\ WalkFrame

\* The call fails: the error leaves the function through `?`, the guards of
\* the frames it leaves are dropped; run() returns the error of a rebalance
\* step and logs the error of the scan.
Fail ==
    /\ trace.todo # << >>
    /\ trace.todo[1].k = "io"
    /\ trace.todo[1].name # "recv"
    /\ IF trace.todo[1].step = "scan"
       THEN /\ trace' = [trace EXCEPT !.todo = << >>, !.guards = {}]
            /\ pc' = AfterScan("tx_err")
            /\ UNCHANGED failure
       ELSE /\ trace' = [trace EXCEPT !.todo = AfterFailedStep(Tail(@)),
                                      !.guards = {}]
            /\ pc' = "exited"
            /\ failure' = trace.todo[1].step
    /\ WalkFrame

\* The top of the loop, the cache in any state; the account the scan
\* selects has its banks picked by find_liquidaiton_bank_canididates.
InitWalk ==
    /\ EngineLoaded
    /\ marginfi_accounts \in [{liquidator_account, "acc1"} -> AccountData]
    /\ marginfi_accounts[liquidator_account].ok
    /\ marginfi_accounts[liquidator_account].amt_zero
    /\ token_accounts \in TokenAccountStates
    /\ token_accounts[BankMint(swap_mint_bank_pk)].balance \in {0, MaxBal}
    /\ liq_deposits \in DepositStates
    /\ pc = "loop"
    /\ chan = 0
    /\ chanOpen = TRUE
    /\ target = NoAccount
    /\ scanResult = "none"
    /\ failure = "none"
    /\ sentSinceRecv = 0
    /\ coalesced = 0
    /\ rebalanced = FALSE
    /\ chain_balance = Unused
    /\ batch = Unused
    /\ sizing = Unused
    /\ \E free_collateral \in {MaxCollateral},
          order \in PermutationsOf(bank_addresses),
          sorted \in SortedCandidates(marginfi_accounts),
          asset_bank_pk \in {"SOL"}, liab_bank_pk \in BankAddrs :
          /\ Selected(sorted) = NoAccount => liab_bank_pk = "USDC"
          /\ trace = [todo |-> run_walk(free_collateral, order, sorted,
                                        asset_bank_pk, liab_bank_pk),
                      guards |-> {},
                      issued |-> << >>]

NextWalk == TakeGuard \/ DropGuard \/ Suspend \/ Fail

SpecWalk == InitWalk /\ [][NextWalk]_vars

(***************************************************************************)
(*                      THE REBALANCE PREDICATE                            *)
(*                                                                         *)
(* needs_to_be_rebalanced with the valuation of a token account as a       *)
(* Result: get_value() fails when the price adapter of the bank of its     *)
(* mint gives no price.                                                    *)
(***************************************************************************)
\* A price adapter from which get_price_of_type returns an error.
NoPrice == 0

\* TokenAccountWrapper::get_value
token_account_get_value(mint) ==
    IF banks[mint].price_adapter = NoPrice
    THEN [ok |-> FALSE, value |-> 0]
    ELSE [ok |-> TRUE, value |-> token_accounts[mint].balance
                                    * banks[mint].price_adapter]

\* A test that passes a value equal to the threshold.
not_below_dust(value) == value >= token_account_dust_threshold

\* value > self.cfg.token_account_dust_threshold
above_dust(value) == value > token_account_dust_threshold

\* has_tokens_in_token_accounts over the token accounts in the order the
\* map yields them: any() stops at the first account above the threshold,
\* and get_value().unwrap() panics at the first account it cannot value.
has_tokens_in_token_accounts_outcome(order) ==
    LET decisive == {i \in DOMAIN order :
                        \/ ~token_account_get_value(order[i]).ok
                        \/ above_dust(token_account_get_value(order[i]).value)}
    IN IF decisive = {} THEN "false"
       ELSE LET first == CHOOSE i \in decisive : \A j \in decisive : i <= j
            IN IF token_account_get_value(order[first]).ok THEN "true" ELSE "panic"

\* The condition at the top of the loop of run().
evaluate_needs_to_be_rebalanced ==
    /\ pc = "loop"
    /\ \E order \in PermutationsOf(DOMAIN token_accounts) :
          LET has_tokens == has_tokens_in_token_accounts_outcome(order)
          IN pc' = IF has_tokens = "panic" THEN "panicked"
                   ELSE IF \/ has_tokens = "true"
                           \/ has_non_preferred_deposits
                           \/ has_liabilties
                        THEN "sell_non_preferred_deposits"
                        ELSE "recv"
    /\ UNCHANGED <<auxVars, engineVars, marginfi_accounts, token_accounts, chan, chanOpen,
                   liq_deposits, target, scanResult, failure, sentSinceRecv,
                   coalesced, rebalanced>>

\* The top of the loop; a bank may be without a price.
InitPredicate ==
    /\ \E price \in [BankAddrs -> Prices \cup {NoPrice}] :
          banks = [b \in BankAddrs |->
                     BankWrapper(IF b = "USDC" THEN "o1" ELSE "o2", price[b])]
    /\ oracle_to_bank_map = [o \in OracleAddrs |->
                               IF o = "o1" THEN <<"USDC">> ELSE <<"SOL">>]
    /\ tracked_oracle_accounts = OracleAddrs
    /\ tracked_token_accounts = {AssociatedTokenAddress(m) : m \in BankAddrs}
    /\ tasks = {}
    /\ held = {}
    /\ ret = [op |-> "none", result |-> "ok"]
    /\ arrived = << >>
    /\ updates = 0
    /\ marginfi_accounts \in [{liquidator_account} -> AccountData]
    /\ token_accounts \in TokenAccountStates
    /\ liq_deposits \in DepositStates
    /\ pc = "loop"
    /\ chan = 0
    /\ chanOpen = TRUE
    /\ target = NoAccount
    /\ scanResult = "none"
    /\ failure = "none"
    /\ sentSinceRecv = 0
    /\ coalesced = 0
    /\ rebalanced = FALSE
    /\ chain_balance = Unused
    /\ batch = Unused
    /\ sizing = Unused
    /\ trace = Unused

NextPredicate == evaluate_needs_to_be_rebalanced

SpecPredicate == InitPredicate /\ [][NextPredicate]_vars

\* The threads run: the processor takes its next step whenever it can, and
\* the update stream keeps delivering while the channel is open.
FairSpecProc ==
    InitProc /\ [][NextProc]_vars /\ WF_vars(Processor) /\ WF_vars(StreamUpdate)

(***************************************************************************)
(*                            THE CLAIMS                                   *)
(***************************************************************************)
RebalanceSteps ==
    {"sell_non_preferred_deposits", "handle_tokens_in_token_accounts",
     "deposit_preferred_tokens"}

ScanErrors == {"sizing_err", "tx_err"}

\* C1: whenever a scan hands an account to liquidate_account, that account
\* is a candidate of the scan and no candidate of the scan has a larger
\* expected profit.
C1_SelectsMaxProfit ==
    [][(pc = "scan" /\ target' # NoAccount) =>
          /\ target' \in Candidates(marginfi_accounts)
          /\ \A a \in Candidates(marginfi_accounts) :
                marginfi_accounts[a].profit <= marginfi_accounts[target'].profit]_vars

\* C2: the account a scan hands to liquidate_account is never the
\* liquidator's own lending account.
C2_NeverSelectsOwnAccount == target # liquidator_account

\* C3: while the channel stays open, whenever the processor is in the scan
\* phase and the rebalance predicate is true, the processor eventually
\* returns to the top of the loop, where the predicate is evaluated.
C3_RebalanceReevaluated ==
    ([]chanOpen) =>
        []((pc \in {"recv", "scan"} /\ needs_to_be_rebalanced) => <>(pc = "loop"))

\* C4: the channel coalesces.  However many signals the producer sent since
\* the consumer's last recv, exactly one waits in the channel (none when
\* none was sent), so the recv that follows a burst of k signals stands for
\* all k, and no further scan can start before the producer signals again;
\* and the producer can always signal while the channel is open.
C4_Coalesces ==
    /\ chan = (IF sentSinceRecv >= 1 THEN 1 ELSE 0)
    /\ (chanOpen /\ pc # "exited") => ENABLED StreamUpdate

\* C4 witness: one recv stood for a burst of MaxSignals signals sent during
\* a scan, the scan it started is over and the consumer is blocked on an
\* empty channel.
C4_Witness ==
    /\ coalesced = MaxSignals
    /\ pc = "recv"
    /\ scanResult # "none"
    /\ chan = 0
    /\ sentSinceRecv = 0

\* C5: a rebalance step that fails does not end the loop: the processor
\* goes on to wait for notifications.
C5_RebalanceFailureKeepsLoop ==
    [][(pc \in RebalanceSteps /\ failure' # failure) => pc' = "recv"]_vars

\* C6: a scan that returns an error leaves the processor in the loop,
\* waiting for the next notification, and run() has not returned; and a
\* processor that waits with a notification in the channel can receive it.
C6_ScanErrorKeepsLoop ==
    /\ [][(pc = "scan" /\ scanResult' \in ScanErrors) =>
             (pc' = "recv" /\ failure' = failure)]_vars
    /\ []((pc = "recv" /\ chan > 0) => ENABLED recv)

\* C6 witness: the last scan failed in its liquidate transaction and the
\* processor is back at recv with a notification to take.
C6_Witness == scanResult = "tx_err" /\ pc = "recv" /\ chan = 1 /\ failure = "none"

\* The entry of the maps a key names.
EntryOf(key) ==
    IF key[1] = "bank" THEN banks[key[2]]
    ELSE IF key[1] = "acc" THEN marginfi_accounts[key[2]]
    ELSE token_accounts[key[2]]

\* The entry a key names exists and holds the data of an update.
EntryHolds(key, data) ==
    IF key[1] = "acc"
    THEN key[2] \in DOMAIN marginfi_accounts /\ marginfi_accounts[key[2]] = data
    ELSE key[2] \in DOMAIN token_accounts /\ token_accounts[key[2]].balance = data

\* The writes scheduled for an entry that have not run yet.
Pending(key) == {t \in tasks : t.key = key}

\* The step is a call of one of the four update handlers.
IsCall == updates' = updates + 1

\* C7: for every bank of the banks map, the bank's oracle address is in
\* tracked_oracle_accounts and oracle_to_bank_map lists the bank under that
\* address, also for banks update_bank added or changed.
C7_OracleRegistered ==
    \A b \in DOMAIN banks :
        /\ banks[b].oracle_key \in tracked_oracle_accounts
        /\ banks[b].oracle_key \in DOMAIN oracle_to_bank_map
        /\ b \in Range(oracle_to_bank_map[banks[b].oracle_key])

\* C8: when update_oracle(o, bytes) returns and no bank lock was held at the
\* call, every bank whose oracle address is o, banks added by update_bank
\* included, carries the adapter derived from bytes.
C8_OracleRefreshesEveryBank ==
    [][(/\ IsCall
        /\ ret'.op = "update_oracle"
        /\ ret'.result = "ok"
        /\ \A b \in DOMAIN banks : BankKey(b) \notin held)
       => \A b \in DOMAIN banks' :
              banks'[b].oracle_key = ret'.key[2]
                  => banks'[b].price_adapter = ret'.data.price]_vars

\* C9: when two updates for one lending account or one token account of
\* the maps have arrived and every write scheduled for the entry has run,
\* the entry holds the data of the update that arrived last, whatever the
\* order in which the spawned tasks ran.
C9_AppliedInArrivalOrder ==
    \A key \in DOMAIN arrived \cap Entries :
        (arrived[key].second /\ Pending(key) = {})
            => EntryHolds(key, arrived[key].data)

BankTokenOracleState ==
    <<banks, token_accounts, oracle_to_bank_map, tracked_oracle_accounts,
      tracked_token_accounts>>

\* C11: an update for an oracle address that is not in oracle_to_bank_map, or
\* for a token account address that is not in tracked_token_accounts, is
\* dropped: the handler returns without panicking, changes none of the bank
\* map, token-account map, oracle map and tracked sets, and schedules no
\* write to them.
C11_UnknownUpdateDropped ==
    [][(/\ IsCall
        /\ \/ /\ ret'.op = "update_oracle"
              /\ ret'.key[2] \notin DOMAIN oracle_to_bank_map
           \/ /\ ret'.op = "update_token_account"
              /\ ret'.address \notin tracked_token_accounts)
       => /\ ret'.result = "ok"
          /\ BankTokenOracleState' = BankTokenOracleState
          /\ tasks' = tasks]_vars

\* C12: update_marginfi_account(address, data) is an upsert: once the call
\* has returned and every write scheduled for the address has run, the
\* engine's marginfi_accounts map has an entry for address holding data,
\* whether or not address had an entry before the call.
C12_MarginfiAccountUpsert ==
    (ret.op = "update_marginfi_account" /\ Pending(ret.key) = {})
        => EntryHolds(ret.key, ret.data)

\* C13: update_token_account(address, data) is an upsert by mint: once the
\* call has returned and every write scheduled for the mint has run, the
\* engine's token_accounts map has an entry under the mint whose balance is
\* the amount of data; an entry inserted by the call carries the decimals
\* of the mint.
C13_TokenAccountUpsert ==
    /\ []((/\ ret.op = "update_token_account"
           /\ ret.result = "ok"
           /\ Pending(ret.key) = {})
          => EntryHolds(ret.key, ret.data))
    /\ [][(/\ IsCall
           /\ ret'.op = "update_token_account"
           /\ ret'.result = "ok"
           /\ ret'.key[2] \notin DOMAIN token_accounts)
          => /\ ret'.key[2] \in DOMAIN token_accounts'
             /\ token_accounts'[ret'.key[2]].mint_decimals = MintDecimals(ret'.key[2])]_vars

\* C14: when start has returned successfully, the engine's lending-account
\* map contains every lending account of the group, and the processor's
\* startup lookup finds the liquidator account.
C14_StartLoadsLendingAccounts ==
    /\ pc = "started" => GroupAccounts \subseteq DOMAIN marginfi_accounts
    /\ failure # "SetupFailed"

\* C15: when start has returned successfully, for every bank of the bank map
\* the token-account map has an entry under the bank's mint whose address is
\* the associated token address of the mint, and that address is tracked.
C15_StartLoadsTokenAccounts ==
    pc = "started" =>
        \A b \in DOMAIN banks :
            /\ BankMint(b) \in DOMAIN token_accounts
            /\ token_accounts[BankMint(b)].address = AssociatedTokenAddress(BankMint(b))
            /\ AssociatedTokenAddress(BankMint(b)) \in tracked_token_accounts

\* C16: update_bank(address, raw) returns true if and only if address was
\* not a key of the bank map before the call.
C16_NewBankFlag ==
    [][(IsCall /\ ret'.op = "update_bank")
       => (ret'.new_bank <=> ret'.key[2] \notin DOMAIN banks)]_vars

\* The maps and tracked sets of the engine.
EngineMaps ==
    <<banks, oracle_to_bank_map, marginfi_accounts, token_accounts,
      tracked_oracle_accounts, tracked_token_accounts>>

Issues(at) ==
    IF at = "sell_non_preferred_deposits" THEN NonPreferredDeposits # {}
    ELSE IF at = "handle_tokens_in_token_accounts" THEN TokenSwaps # {}
    ELSE DepositsPreferred

\* C18: rebalance is idempotent: once the three rebalance steps have run to
\* completion and no update has been applied to the engine since, a
\* rebalance step that runs again issues no withdraw, swap or deposit.
C18_RebalanceIdempotent ==
    [][(/\ rebalanced
        /\ pc \in RebalanceSteps
        /\ pc' # pc
        /\ pc' # "exited")
       => ~Issues(pc)]_vars

\* C19: a token account is swapped by handle_tokens_in_token_accounts only
\* when its value is strictly greater than token_account_dust_threshold,
\* the same test as the rebalance predicate: a value equal to the
\* threshold is not swapped.
C19_DustNotSwapped ==
    [][(pc = "handle_tokens_in_token_accounts" /\ pc' = "deposit_preferred_tokens")
       => \A bank_pk \in TokenSwaps :
              TokenValue(BankMint(bank_pk)) > token_account_dust_threshold]_vars

\* C20: after withdraw_and_sell_deposit has succeeded for a non-preferred
\* deposit, the liquidator has no deposit left in that bank and the
\* swap-mint token account is empty, whatever the free collateral was.
C20_DepositSoldOut ==
    pc = "sold" =>
        /\ \A bank_pk \in BankAddrs :
              BankMint(bank_pk) \notin preferred_mints => liq_deposits[bank_pk] = 0
        /\ token_accounts[BankMint(swap_mint_bank_pk)].balance = 0

\* C22: a rebalance that runs to completion leaves the liquidator account
\* without liability, so the rebalance predicate is no longer true because
\* of liabilities.
C22_RebalanceRepaysLiabilities ==
    [][(pc = "deposit_preferred_tokens" /\ pc' = "recv") => ~has_liabilties']_vars

\* C27: the account a scan hands to liquidate_account never has an expected
\* profit of zero.
C27_ZeroProfitDropped ==
    [][(pc = "scan" /\ target' # NoAccount)
          => marginfi_accounts[target'].profit # 0]_vars

\* Every lending account is solvent: it has no liabilities or its maximum
\* liquidatable asset amount is zero.
AllSolvent ==
    \A a \in DOMAIN marginfi_accounts :
        ~marginfi_accounts[a].liabs
          \/ (marginfi_accounts[a].ok /\ marginfi_accounts[a].amt_zero)

\* C28: a scan over a state in which every lending account is solvent
\* completes without error and hands no account to liquidate_account.
C28_SolventScanIssuesNothing ==
    [][(pc = "scan" /\ AllSolvent /\ pc' # pc)
          => (target' = NoAccount /\ scanResult' = "ok" /\ pc' = "recv")]_vars

\* C28 witness: a scan has completed over solvent accounts, one of which
\* has liabilities.
C28_Witness ==
    /\ pc = "recv"
    /\ scanResult = "ok"
    /\ AllSolvent
    /\ \E a \in DOMAIN marginfi_accounts : marginfi_accounts[a].liabs

SetupErrors == {"SetupFailed", "Failed to get bank for swap mint"}

\* C23: a processor whose setup fails (no liquidator account in the map,
\* unreadable keypair, token accounts not created, no bank of the swap
\* mint) ends without entering the main loop: it runs no rebalance step
\* and no scan, and hands no account to liquidate_account.
C23_SetupFailureEndsThread ==
    /\ [][(pc = "started" /\ pc' # pc
              /\ \/ failure' \in SetupErrors
                 \/ liquidator_account \notin DOMAIN marginfi_accounts
                 \/ get_bank_for_mint(swap_mint) = {})
            => (pc' = "exited" /\ failure' \in SetupErrors)]_vars
    /\ [](failure \in SetupErrors
            => /\ pc = "exited"
               /\ target = NoAccount
               /\ scanResult = "none"
               /\ ~rebalanced)

\* C23 witness: the liquidator account was found and the last setup step,
\* the lookup of the swap mint's bank, failed.
C23_Witness ==
    /\ pc = "exited"
    /\ failure = "Failed to get bank for swap mint"
    /\ liquidator_account \in DOMAIN marginfi_accounts

\* C21: after deposit_preferred_tokens has succeeded, the signer's token
\* account of the swap mint is empty on chain; and when the engine holds no
\* balance for the swap mint, or a zero one, the step deposits nothing.
C21_SwapMintBalanceDeposited ==
    /\ [](pc = "deposited" => chain_balance[BankMint(swap_mint_bank_pk)] = 0)
    /\ [][(pc = "deposit_preferred_tokens" /\ ~DepositsPreferred)
            => UNCHANGED <<chain_balance, liq_deposits>>]_vars

\* C24: a call of batch_get_multiple_accounts that returns Ok returns one
\* optional per address, the i-th being the account fetched for the i-th
\* address, whatever the number of addresses and the order in which the
\* chunks completed.
C24_BatchKeepsInputOrder ==
    batch.result = "ok" =>
        /\ Len(batch.accounts) = Len(batch.addresses)
        /\ \A i \in 1..Len(batch.addresses) :
              batch.accounts[i] = Fetched(batch.addresses[i])

\* C24 witness: the call returned Ok for a number of addresses that is no
\* multiple of the chunk size nor of the batch size, with a chunk that
\* completed before one of lower index, over addresses that differ.
C24_Witness ==
    /\ batch.result = "ok"
    /\ batch.out_of_order
    /\ batch.max_batch_size = 2
    /\ batch.max_concurrent_calls = 2
    /\ Len(batch.addresses) = 5
    /\ batch.addresses[1] # batch.addresses[3]

\* C25: a chunk gives up only after its retries, and a call in which a
\* chunk gave up returns Err: a call that returns Ok had no such chunk and
\* returns as many optionals as it was given addresses.
C25_FailedChunkIsFatal ==
    /\ [](\A k \in DOMAIN batch.chunks :
             batch.chunks[k].state = "err" => batch.chunks[k].attempts = MaxRetries)
    /\ [](batch.exhausted => batch.result # "ok")
    /\ [](batch.result = "ok" => Len(batch.accounts) = Len(batch.addresses))
    /\ [][(batch.exhausted /\ batch'.result # batch.result) => batch'.result = "err"]_vars

\* C25 witness: the call returned Err after an earlier batch had been
\* fetched and while another chunk of the failing batch had succeeded.
C25_Witness ==
    /\ batch.result = "err"
    /\ batch.exhausted
    /\ batch.accounts # << >>
    /\ \E k \in DOMAIN batch.chunks : batch.chunks[k].state = "ok"

\* C26: for a bank of the isolated risk tier the risk-weighted asset value
\* is zero on the account-health path and on the get_value path, for every
\* amount, price, weight and requirement type.
C26_IsolatedValueIsZero ==
    (sizing.fn # "none" /\ sizing.bank.risk_tier = "Isolated") => sizing.result = 0

\* The liquidator's capacity on the asset bank for the arguments of the
\* sizing at hand.
M_self_as_asset ==
    liquidation_asset_amount_capacity(sizing.bank, sizing.asset_bank,
                                      sizing.free_collateral, sizing.asset_amount)

\* C29: the amount passed to liquidate is min(M_target, M_self_as_asset)
\* times 0.98, and so exceeds neither the target's maximum liquidatable
\* amount nor the liquidator's capacity.
C29_LiquidationAmount ==
    sizing.fn = "liquidate_account" =>
        LET smaller == IF sizing.max_asset_liquidation_amount <= M_self_as_asset
                       THEN sizing.max_asset_liquidation_amount
                       ELSE M_self_as_asset
        IN /\ sizing.result = (smaller * 98) \div 100
           /\ sizing.result <= sizing.max_asset_liquidation_amount
           /\ sizing.result <= M_self_as_asset

\* C29 witness: an amount was sized with the liquidator's capacity below
\* the target's maximum, and it is not zero.
C29_Witness ==
    /\ sizing.fn = "liquidate_account"
    /\ M_self_as_asset < sizing.max_asset_liquidation_amount
    /\ sizing.result > 0

\* The capacity in UI units as the two branches give it.
BorrowCapacityUi ==
    LET bank == sizing.bank
        untied == Min(sizing.free_collateral,
                      bank_calc_value(bank, sizing.asset_amount, "Assets"))
        additional == Div(sizing.free_collateral - untied,
                          Mul(price_high(bank), bank.liability_weight_init))
    IN IF bank.asset_weight_init = 0
       THEN additional
       ELSE Div(untied, Mul(bank.price_low, bank.asset_weight_init)) + additional

\* C30: max_borrow is the capacity in UI units converted to native units
\* plus the native asset amount the liquidator holds on the bank, whether
\* the initial asset weight is zero or not.
C30_MaxBorrowAddsAssetAmount ==
    sizing.fn = "get_max_borrow_for_bank" =>
        sizing.result =
            Mul(BorrowCapacityUi, EXP_10_I80F48(sizing.bank.mint_decimals))
              + sizing.asset_amount

\* C31: get_max_withdraw_for_bank on an assets-side balance of initial
\* value v returns the native amount of w = min(v, free collateral) and the
\* flag v <= free collateral, w never exceeding the free collateral; with no
\* balance or a liabilities-side balance it returns (0, false).
C31_MaxWithdraw ==
    sizing.fn = "get_max_withdraw_for_bank" =>
        LET fc == IF sizing.assets > sizing.liabs
                  THEN sizing.assets - sizing.liabs ELSE 0
            v == calc_weighted_assets(sizing.bank, sizing.amount, "Initial")
            w == IF v <= fc THEN v ELSE fc
        IN IF sizing.side = "Assets"
           THEN /\ w <= fc
                /\ sizing.result =
                       ((w * FixedOne) \div sizing.real_time_low)
                           * (10 ^ sizing.bank.mint_decimals)
                /\ sizing.withdraw_all = (v <= fc)
           ELSE sizing.result = 0 /\ ~sizing.withdraw_all

\* An assets-side balance worth more than the free collateral was sized: a
\* part of it is returned, without the flag.
C31_Witness ==
    /\ sizing.fn = "get_max_withdraw_for_bank"
    /\ sizing.side = "Assets"
    /\ sizing.assets > sizing.liabs
    /\ calc_weighted_assets(sizing.bank, sizing.amount, "Initial")
           > sizing.assets - sizing.liabs
    /\ sizing.result > 0
    /\ ~sizing.withdraw_all

\* C32: get_free_collateral is never negative: assets - liabs when the
\* assets exceed the liabilities, zero otherwise.
C32_FreeCollateralNotNegative ==
    sizing.fn = "get_free_collateral" =>
        /\ sizing.result >= 0
        /\ sizing.assets > sizing.liabs
               => sizing.result = sizing.assets - sizing.liabs
        /\ sizing.assets <= sizing.liabs => sizing.result = 0

\* The free collateral of an account whose liabilities exceed its assets
\* was computed.
C32_Witness ==
    /\ sizing.fn = "get_free_collateral"
    /\ sizing.liabs > sizing.assets
    /\ sizing.result = 0

\* C33: the processor holds no guard of a bank, lending-account or
\* token-account entry while it is suspended: at every RPC call, request to
\* the swap API, submission of a transaction and recv on the notification
\* channel the set of guards it holds is empty.
C33_NoGuardAcrossSuspension ==
    /\ (trace.todo # << >> /\ trace.todo[1].k = "io") => trace.guards = {}
    /\ trace.todo = << >> => trace.guards = {}

\* The thread is about to submit the liquidation, after the reads of
\* liquidate_account and at least one call before it.
C33_Witness ==
    /\ trace.todo # << >>
    /\ trace.todo[1].name = "liquidate"
    /\ trace.guards = {}
    /\ trace.issued # << >>

StepRank(step) ==
    CASE step = "loop" -> 0
      [] step = "sell_non_preferred_deposits" -> 1
      [] step = "handle_tokens_in_token_accounts" -> 2
      [] step = "deposit_preferred_tokens" -> 3
      [] step = "recv" -> 4
      [] OTHER -> 5

OpRank(name) ==
    CASE name = "withdraw" -> 1
      [] name = "quote" -> 2
      [] name = "swap" -> 3
      [] name = "get_latest_blockhash" -> 4
      [] name = "aggressive_send_tx" -> 5
      [] OTHER -> 6

IssuedIn(step, name) ==
    {i \in DOMAIN trace.issued :
        trace.issued[i].step = step /\ trace.issued[i].name = name}

\* C35: in a rebalance pass the calls of sell_non_preferred_deposits come
\* before those of handle_tokens_in_token_accounts, and those before the
\* deposit of deposit_preferred_tokens; for a non-preferred deposit the
\* withdraw comes first, then the swap, then the deposit, none without the
\* one before it; after the failure of a step run() has returned and no
\* call of that pass is made any more.
C35_StepsInOrder ==
    /\ [](\A i, j \in DOMAIN trace.issued :
            i < j =>
              /\ StepRank(trace.issued[i].step) <= StepRank(trace.issued[j].step)
              /\ (/\ trace.issued[i].step = "sell_non_preferred_deposits"
                  /\ trace.issued[j].step = "sell_non_preferred_deposits")
                   => OpRank(trace.issued[i].name) < OpRank(trace.issued[j].name))
    /\ [](\A j \in IssuedIn("sell_non_preferred_deposits", "quote") :
            \E i \in IssuedIn("sell_non_preferred_deposits", "withdraw") : i < j)
    /\ [](\A j \in IssuedIn("sell_non_preferred_deposits", "deposit") :
            \E i \in IssuedIn("sell_non_preferred_deposits", "aggressive_send_tx") :
                i < j)
    /\ []((/\ pc \in {"recv", "scan"}
           /\ failure = "none"
           /\ NonPreferredDeposits # {})
            => IssuedIn("sell_non_preferred_deposits", "withdraw") # {})
    /\ [](pc = "exited" => trace.todo = << >>)
    /\ [][pc = "exited" => trace'.issued = trace.issued]_vars

\* The first step withdrew, swapped and deposited; the swap of the second
\* step failed and run() returned.
C35_Witness ==
    /\ pc = "exited"
    /\ failure = "handle_tokens_in_token_accounts"
    /\ IssuedIn("sell_non_preferred_deposits", "deposit") # {}
    /\ IssuedIn("handle_tokens_in_token_accounts", "quote") # {}

\* C36: handle_tokens_in_token_accounts never swaps from the mint of the
\* swap bank, every swap it issues goes to the swap mint, and for every
\* other bank whose token account is worth more than the dust threshold it
\* issues exactly one swap, of the whole balance of that token account.
C36_TokenSwaps ==
    /\ \A i \in DOMAIN trace.issued :
          (/\ trace.issued[i].step = "handle_tokens_in_token_accounts"
           /\ trace.issued[i].name \in {"quote", "swap", "aggressive_send_tx"})
            => /\ trace.issued[i].on # BankKey(swap_mint_bank_pk)
               /\ trace.issued[i].to = BankKey(swap_mint_bank_pk)
    /\ (/\ pc \in {"deposit_preferred_tokens", "recv", "scan"}
        /\ needs_to_be_rebalanced
        /\ failure = "none")
         => \A bank_pk \in DOMAIN banks \ {swap_mint_bank_pk} :
               token_accounts[BankMint(bank_pk)].balance
                     * banks[bank_pk].price_adapter > token_account_dust_threshold
                 => \A name \in {"quote", "swap", "aggressive_send_tx"} :
                       LET issued == {i \in IssuedIn("handle_tokens_in_token_accounts",
                                                     name) :
                                         trace.issued[i].on = BankKey(bank_pk)}
                       IN /\ Cardinality(issued) = 1
                          /\ \A i \in issued :
                                trace.issued[i].amount
                                    = token_accounts[BankMint(bank_pk)].balance

\* The step is over: it swapped the token account of SOL while the token
\* account of the swap mint was worth more than the dust threshold too.
C36_Witness ==
    /\ pc = "deposit_preferred_tokens"
    /\ failure = "none"
    /\ token_accounts[BankMint(swap_mint_bank_pk)].balance
           * banks[swap_mint_bank_pk].price_adapter > token_account_dust_threshold
    /\ \E i \in IssuedIn("handle_tokens_in_token_accounts", "aggressive_send_tx") :
          /\ trace.issued[i].on = BankKey("SOL")
          /\ trace.issued[i].amount > token_account_dust_threshold

\* Every token account can be valued.
AllValued == \A mint \in DOMAIN token_accounts : banks[mint].price_adapter # NoPrice

\* C34: with every token account valued, needs_to_be_rebalanced returns
\* true if and only if some token account is worth strictly more than the
\* dust threshold, or the liquidator has an active assets-side balance on a
\* bank whose mint is not preferred, or the liquidator has a liability.
C34_RebalancePredicate ==
    [][(pc = "loop" /\ AllValued)
         => /\ pc' \in {"sell_non_preferred_deposits", "recv"}
            /\ (pc' = "sell_non_preferred_deposits")
                 <=> \/ \E mint \in DOMAIN token_accounts :
                           token_accounts[mint].balance * banks[mint].price_adapter
                               > token_account_dust_threshold
                     \/ \E bank_pk \in BankAddrs :
                           /\ liq_deposits[bank_pk] > 0
                           /\ BankMint(bank_pk) \notin preferred_mints
                     \/ marginfi_accounts[liquidator_account].liabs]_vars

\* The predicate was false with a token account worth exactly the dust
\* threshold.
C34_Witness ==
    /\ pc = "recv"
    /\ AllValued
    /\ \E mint \in DOMAIN token_accounts :
          token_accounts[mint].balance * banks[mint].price_adapter
              = token_account_dust_threshold

\* C37: a token account whose valuation fails is left out of the rebalance
\* predicate, which still evaluates the other token accounts and does not
\* crash (and an account whose valuation fails is left out of the scan).
C37_FailedValuationLeftOut ==
    [][pc = "loop"
         => /\ pc' # "panicked"
            /\ (\E mint \in DOMAIN token_accounts :
                   /\ banks[mint].price_adapter # NoPrice
                   /\ token_accounts[mint].balance * banks[mint].price_adapter
                          > token_account_dust_threshold)
                 => pc' = "sell_non_preferred_deposits"]_vars

\* C39: update_oracle changes nothing but the price adapters of the banks
\* listed under the oracle in oracle_to_bank_map: the banks keep their
\* configuration, the three maps keep their keys, the lending accounts and
\* token accounts, oracle_to_bank_map and the two tracked sets are as
\* before, no write is scheduled, and for an oracle without an entry the
\* bank map is as before too.
C39_UpdateOracleFrame ==
    [][(IsCall /\ ret'.op = "update_oracle")
         => LET oracle_address == ret'.key[2]
                known == oracle_address \in DOMAIN oracle_to_bank_map
            IN /\ DOMAIN banks' = DOMAIN banks
               /\ \A b \in DOMAIN banks :
                     /\ banks'[b].oracle_key = banks[b].oracle_key
                     /\ banks'[b] # banks[b]
                          => /\ known
                             /\ \E i \in DOMAIN oracle_to_bank_map[oracle_address] :
                                   oracle_to_bank_map[oracle_address][i] = b
               /\ ~known => banks' = banks
               /\ marginfi_accounts' = marginfi_accounts
               /\ token_accounts' = token_accounts
               /\ oracle_to_bank_map' = oracle_to_bank_map
               /\ tracked_oracle_accounts' = tracked_oracle_accounts
               /\ tracked_token_accounts' = tracked_token_accounts
               /\ tasks' = tasks]_vars

\* update_oracle returned after writing the adapter of a listed bank while
\* a bank that is not listed carries another price.
C39_Witness ==
    /\ ret.op = "update_oracle"
    /\ ret.result = "ok"
    /\ ret.key[2] \in DOMAIN oracle_to_bank_map
    /\ \E b \in DOMAIN banks :
          /\ \E i \in DOMAIN oracle_to_bank_map[ret.key[2]] :
                oracle_to_bank_map[ret.key[2]][i] = b
          /\ banks[b].price_adapter = ret.data.price
    /\ \E b \in DOMAIN banks :
          /\ \A i \in DOMAIN oracle_to_bank_map[ret.key[2]] :
                oracle_to_bank_map[ret.key[2]][i] # b
          /\ banks[b].price_adapter # ret.data.price

\* C38: each notification the processor receives starts exactly one scan (a
\* scan starts only by taking one notification out of the channel, and it
\* is over before the next recv), and a scan hands at most one account to
\* liquidate_account, one of the accounts it found liquidatable.
C38_OneScanOneLiquidation ==
    [][/\ (pc = "recv" /\ chan' < chan) => pc' = "scan"
       /\ (pc' = "scan" /\ pc # "scan") => (pc = "recv" /\ chan' = chan - 1)
       /\ (pc = "scan" /\ pc' # "scan")
            => /\ pc' = "recv"
               /\ target' # NoAccount
                    => /\ target' \in Candidates(marginfi_accounts)
                       /\ scanResult' \in {"ok", "sizing_err", "tx_err"}
               /\ target' = NoAccount
                    => (Candidates(marginfi_accounts) = {} /\ scanResult' = "ok")]_vars

\* A scan that found two liquidatable accounts is over: one of them was
\* handed to liquidate_account.
C38_Witness ==
    /\ pc = "recv"
    /\ scanResult = "ok"
    /\ target # NoAccount
    /\ Cardinality(Candidates(marginfi_accounts)) = 2

====
